---- MODULE Spec2Model ----
(***************************************************************************)
(* Model of the markdown-to-docx renderer of backend/utils/docx-generator.js *)
(*                                                                         *)
(* Text is a sequence of one-character strings, so that trimming, prefix   *)
(* tests, splitting and the regular expressions of the source are computed *)
(* character by character.  A document is the sequence of its lines        *)
(* (content.split('\n')).  Document nodes are records that carry the       *)
(* attributes the source passes to the docx constructors.                  *)
(***************************************************************************)
EXTENDS Integers, Sequences, FiniteSets, TLC

\* ------------------------------------------------------------------ bounds
\* Longest document, in lines, that Init draws.
MaxLines == 3

\* ------------------------------------------------------------ brand colors
ELECTRIC_BLUE == "0051FF"
DARK_BLUE == "00184D"
NEON_GREEN == "C8FF00"
BLACK == "000000"
LIGHT_GRAY == "F4F4F4"
MEDIUM_GRAY == "666666"
WHITE == "FFFFFF"

STATUS_PREFIXES ==
  { <<"P","u","l","l","i","n","g">>,
    <<"F","e","t","c","h","i","n","g">>,
    <<"R","e","s","e","a","r","c","h","i","n","g">>,
    <<"B","u","i","l","d","i","n","g">>,
    <<"L","o","a","d","i","n","g">>,
    <<"A","n","a","l","y","z","i","n","g">>,
    <<"C","o","m","p","u","t","i","n","g">>,
    <<"G","a","t","h","e","r","i","n","g">>,
    <<"C","h","e","c","k","i","n","g">> }

\* ------------------------------------------------------- string primitives
WhiteSpace == {" ", "\t"}
Digits == {"0","1","2","3","4","5","6","7","8","9"}

RECURSIVE TrimStart(_)
TrimStart(s) ==
  IF s # <<>> /\ Head(s) \in WhiteSpace THEN TrimStart(Tail(s)) ELSE s

RECURSIVE TrimEnd(_)
TrimEnd(s) ==
  IF s # <<>> /\ s[Len(s)] \in WhiteSpace
  THEN TrimEnd(SubSeq(s, 1, Len(s) - 1))
  ELSE s

\* String.prototype.trim
Trim(s) == TrimEnd(TrimStart(s))

\* s.startsWith(p)
StartsWith(s, p) == Len(s) >= Len(p) /\ SubSeq(s, 1, Len(p)) = p

\* s.endsWith(p)
EndsWith(s, p) ==
  Len(s) >= Len(p) /\ SubSeq(s, Len(s) - Len(p) + 1, Len(s)) = p

\* s.slice(k), k >= 0
Slice(s, k) == SubSeq(s, k + 1, Len(s))

\* s.slice(a, -b), a, b >= 0
SliceMid(s, a, b) == SubSeq(s, a + 1, Len(s) - b)

\* s.includes(p)
Includes(s, p) ==
  \E k \in 1..(Len(s) - Len(p) + 1) : SubSeq(s, k, k + Len(p) - 1) = p

\* s.split(sep) for a non-empty literal separator: every piece, in order.
RECURSIVE SplitFrom(_, _, _, _)
SplitFrom(s, sep, q, p) ==
  IF p + Len(sep) - 1 > Len(s)
  THEN << SubSeq(s, q, Len(s)) >>
  ELSE IF SubSeq(s, p, p + Len(sep) - 1) = sep
       THEN << SubSeq(s, q, p - 1) >>
            \o SplitFrom(s, sep, p + Len(sep), p + Len(sep))
       ELSE SplitFrom(s, sep, q, p + 1)

Split(s, sep) == SplitFrom(s, sep, 1, 1)

\* s.split(sep, limit): the first `limit` pieces of the full split.
SplitLimit(s, sep, limit) ==
  LET all == Split(s, sep)
  IN  SubSeq(all, 1, IF Len(all) < limit THEN Len(all) ELSE limit)

\* Length of the maximal run of characters other than '*' starting at p.
RECURSIVE NonStarRun(_, _)
NonStarRun(s, p) ==
  IF p <= Len(s) /\ s[p] # "*" THEN 1 + NonStarRun(s, p + 1) ELSE 0

\* Length of the match of /\*\*[^*]+\*\*/ starting exactly at p, 0 if none.
MatchBoldAt(s, p) ==
  IF p + 1 <= Len(s) /\ s[p] = "*" /\ s[p + 1] = "*"
  THEN LET k == NonStarRun(s, p + 2)
       IN  IF /\ k >= 1
              /\ p + 3 + k <= Len(s)
              /\ s[p + 2 + k] = "*"
              /\ s[p + 3 + k] = "*"
           THEN k + 4
           ELSE 0
  ELSE 0

\* Length of the match of /\*[^*]+\*/ starting exactly at p, 0 if none.
MatchItalicAt(s, p) ==
  IF p <= Len(s) /\ s[p] = "*"
  THEN LET k == NonStarRun(s, p + 1)
       IN  IF k >= 1 /\ p + 1 + k <= Len(s) /\ s[p + 1 + k] = "*"
           THEN k + 2
           ELSE 0
  ELSE 0

\* text.split(/(\*\*[^*]+\*\*)/): the pieces between matches at the odd
\* positions, the captured matches at the even positions.
RECURSIVE SplitBoldFrom(_, _, _)
SplitBoldFrom(s, q, p) ==
  IF p > Len(s)
  THEN << SubSeq(s, q, Len(s)) >>
  ELSE LET m == MatchBoldAt(s, p)
       IN  IF m > 0
           THEN << SubSeq(s, q, p - 1), SubSeq(s, p, p + m - 1) >>
                \o SplitBoldFrom(s, p + m, p + m)
           ELSE SplitBoldFrom(s, q, p + 1)

SplitBold(s) == SplitBoldFrom(s, 1, 1)

\* text.split(/(\*[^*]+\*)/)
RECURSIVE SplitItalicFrom(_, _, _)
SplitItalicFrom(s, q, p) ==
  IF p > Len(s)
  THEN << SubSeq(s, q, Len(s)) >>
  ELSE LET m == MatchItalicAt(s, p)
       IN  IF m > 0
           THEN << SubSeq(s, q, p - 1), SubSeq(s, p, p + m - 1) >>
                \o SplitItalicFrom(s, p + m, p + m)
           ELSE SplitItalicFrom(s, q, p + 1)

SplitItalic(s) == SplitItalicFrom(s, 1, 1)

\* Concatenation of a sequence of sequences.
RECURSIVE FlattenFrom(_, _)
FlattenFrom(ss, k) ==
  IF k > Len(ss) THEN << >> ELSE ss[k] \o FlattenFrom(ss, k + 1)

Flatten(ss) == FlattenFrom(ss, 1)

\* /^\|[-:\s|]+\|$/.test(t)
IsSeparatorRow(t) ==
  /\ Len(t) >= 3
  /\ t[1] = "|"
  /\ t[Len(t)] = "|"
  /\ \A k \in 2..(Len(t) - 1) : t[k] \in ({"-", ":", "|"} \cup WhiteSpace)

\* /^\*\*[^*]+\*\*$/.test(t)
IsEntirelyBold(t) ==
  /\ Len(t) >= 5
  /\ SubSeq(t, 1, 2) = <<"*", "*">>
  /\ SubSeq(t, Len(t) - 1, Len(t)) = <<"*", "*">>
  /\ \A k \in 3..(Len(t) - 2) : t[k] # "*"

\* line.match(/^(\d+)\.\s/): the length of the match, 0 if none.
RECURSIVE DigitRun(_, _)
DigitRun(s, p) ==
  IF p <= Len(s) /\ s[p] \in Digits THEN 1 + DigitRun(s, p + 1) ELSE 0

NumMatch(line) ==
  LET d == DigitRun(line, 1)
  IN  IF /\ d >= 1
         /\ d + 2 <= Len(line)
         /\ line[d + 1] = "."
         /\ line[d + 2] \in WhiteSpace
      THEN d + 2
      ELSE 0

\* --------------------------------------------------------- document nodes
\* new TextRun({ text, bold, italics, color, size, font: { name } }); an
\* attribute the source leaves out is FALSE.
TextRun(text, bold, italics, color, size, font) ==
  [ text |-> text, bold |-> bold, italics |-> italics,
    color |-> color, size |-> size, font |-> font ]

\* The attributes of new Paragraph({...}) the source uses; an attribute the
\* source leaves out is "", 0, FALSE or << >>.
BaseParagraph ==
  [ type |-> "Paragraph", heading |-> "", alignment |-> "",
    spacing |-> << >>, indentLeft |-> 0, bullet |-> FALSE,
    numbering |-> "", borderBottom |-> "", pageBreak |-> FALSE,
    children |-> << >> ]

\* new TableCell({ borders: cellBorders, shading: { fill }, width, margins,
\* children }); margins is <<top, bottom, left, right>> or << >>.
TableCell(fill, width, margins, children) ==
  [ fill |-> fill, width |-> width, margins |-> margins,
    children |-> children ]

TableRow(cells) == [ children |-> cells ]

Table(columnWidths, rows) ==
  [ type |-> "Table", columnWidths |-> columnWidths, rows |-> rows ]

\* The null that createCTABox and buildBrandTable return.
Null == [ type |-> "null" ]

\* ------------------------------------------------------------ parseInline
DefaultOpts ==
  [ color |-> BLACK, size |-> 22, font |-> "Calibri",
    bold |-> FALSE, italic |-> FALSE ]

\* Faulty variant of InlineSubRuns: a plain run does not take the base flags.
InlineSubRuns_PlainDropsFlags(sub, o) ==
  IF StartsWith(sub, <<"*">>) /\ EndsWith(sub, <<"*">>) /\ Len(sub) > 2
  THEN << TextRun(SliceMid(sub, 1, 1), o.bold, TRUE, o.color, o.size, o.font) >>
  ELSE IF sub # << >>
       THEN << TextRun(sub, FALSE, FALSE, o.color, o.size, o.font) >>
       ELSE << >>

\* One piece of the italic split: an italic run, a plain run, or nothing.
InlineSubRuns(sub, o) ==
  IF StartsWith(sub, <<"*">>) /\ EndsWith(sub, <<"*">>) /\ Len(sub) > 2
  THEN << TextRun(SliceMid(sub, 1, 1), o.bold, TRUE, o.color, o.size, o.font) >>
  ELSE IF sub # << >>
       THEN << TextRun(sub, o.bold, o.italic, o.color, o.size, o.font) >>
       ELSE << >>

\* Faulty variant of InlinePartRuns: a bold span resets the base italic flag.
InlinePartRuns_BoldDropsItalic(part, o) ==
  IF /\ StartsWith(part, <<"*", "*">>)
     /\ EndsWith(part, <<"*", "*">>)
     /\ Len(part) > 4
  THEN << TextRun(SliceMid(part, 2, 2), TRUE, FALSE, o.color, o.size, o.font) >>
  ELSE LET italicParts == SplitItalic(part)
       IN  Flatten([ k \in 1..Len(italicParts) |->
                       InlineSubRuns(italicParts[k], o) ])

\* One piece of the bold split: a bold run, or the runs of its italic split.
InlinePartRuns(part, o) ==
  IF /\ StartsWith(part, <<"*", "*">>)
     /\ EndsWith(part, <<"*", "*">>)
     /\ Len(part) > 4
  THEN << TextRun(SliceMid(part, 2, 2), TRUE, o.italic, o.color, o.size, o.font) >>
  ELSE LET italicParts == SplitItalic(part)
       IN  Flatten([ k \in 1..Len(italicParts) |->
                       InlineSubRuns(italicParts[k], o) ])

parseInline(text, o) ==
  LET boldParts == SplitBold(text)
  IN  Flatten([ k \in 1..Len(boldParts) |-> InlinePartRuns(boldParts[k], o) ])

\* ---------------------------------------------------------------- stripMd
\* s.replace(/\*\*([^*]+)\*\*/g, '$1')
ReplaceBold(s) ==
  LET parts == SplitBold(s)
  IN  Flatten([ k \in 1..Len(parts) |->
                  IF k % 2 = 0 THEN SliceMid(parts[k], 2, 2) ELSE parts[k] ])

\* s.replace(/\*([^*]+)\*/g, '$1')
ReplaceItalic(s) ==
  LET parts == SplitItalic(s)
  IN  Flatten([ k \in 1..Len(parts) |->
                  IF k % 2 = 0 THEN SliceMid(parts[k], 1, 1) ELSE parts[k] ])

stripMd(text) == Trim(ReplaceItalic(ReplaceBold(text)))

\* ----------------------------------------------------------- row builders
createHeaderRow(headers, colWidths, bgColor) ==
  TableRow([ k \in 1..Len(headers) |->
    TableCell(bgColor, colWidths[k], << >>,
      << [ BaseParagraph EXCEPT
             !.spacing = <<80, 80>>,
             !.children = << TextRun(stripMd(headers[k]), TRUE, FALSE,
                                     WHITE, 20, "Calibri") >> ] >>) ])

\* colWidths[i] || 2000
DataCellWidth(colWidths, k) ==
  IF k <= Len(colWidths) /\ colWidths[k] # 0 THEN colWidths[k] ELSE 2000

createDataRow(cells, colWidths, bgColor, textColor) ==
  TableRow([ k \in 1..Len(cells) |->
    TableCell(bgColor, DataCellWidth(colWidths, k), << >>,
      << [ BaseParagraph EXCEPT
             !.spacing = <<60, 60>>,
             !.children =
               parseInline(stripMd(cells[k]),
                 [ DefaultOpts EXCEPT !.color = textColor, !.size = 20 ]) ] >>) ])

\* ----------------------------------------------------------- createCTABox
\* The paragraph of one non-blank body line of a callout box.  "U+2022"
\* stands for the one character of the bullet glyph.
CTABodyParagraph(line) ==
  LET isBullet == StartsWith(line, <<"-", " ">>)
      raw == IF isBullet THEN Slice(line, 2) ELSE line
      boldParts == SplitBold(raw)
      bulletRuns ==
        IF isBullet
        THEN << TextRun(<<"U+2022", " ">>, FALSE, FALSE, NEON_GREEN, 20, "Calibri") >>
        ELSE << >>
      partRuns(part) ==
        IF /\ StartsWith(part, <<"*", "*">>)
           /\ EndsWith(part, <<"*", "*">>)
           /\ Len(part) > 4
        THEN << TextRun(SliceMid(part, 2, 2), TRUE, FALSE, NEON_GREEN, 20, "Calibri") >>
        ELSE IF part # << >>
             THEN << TextRun(part, FALSE, FALSE, WHITE, 20, "Calibri") >>
             ELSE << >>
  IN  [ BaseParagraph EXCEPT
          !.spacing = <<40, 40>>,
          !.indentLeft = IF isBullet THEN 180 ELSE 0,
          !.children =
            bulletRuns
            \o Flatten([ k \in 1..Len(boldParts) |-> partRuns(boldParts[k]) ]) ]

\* Faulty variant of IsBlankBodyLine: the line is not trimmed first.
IsBlankBodyLine_Untrimmed(line) == line = << >>

\* !line.trim()
IsBlankBodyLine(line) == Trim(line) = << >>

\* The callout box: null when there is nothing to show, else a one-row,
\* one-cell table holding the headline and the non-blank body lines.
createCTABox(headline, bodyLines) ==
  LET headlineParas ==
        IF headline # << >>
        THEN << [ BaseParagraph EXCEPT
                    !.alignment = "LEFT",
                    !.spacing = <<160, 80>>,
                    !.children = << TextRun(headline, TRUE, FALSE, NEON_GREEN,
                                            26, "Bebas Neue") >> ] >>
        ELSE << >>
      bodyParas ==
        Flatten([ k \in 1..Len(bodyLines) |->
                    IF IsBlankBodyLine(bodyLines[k])
                    THEN << >>
                    ELSE << CTABodyParagraph(bodyLines[k]) >> ])
      children == headlineParas \o bodyParas
  IN  IF Len(children) = 0
      THEN Null
      ELSE Table(<<9360>>,
             << TableRow(<< TableCell(DARK_BLUE, 9360, <<120, 120, 160, 160>>,
                                      children) >>) >>)

\* ----------------------------------------------------- parseMarkdownTable
\* trimmed.split('|').slice(1, -1).map(c => c.trim())
TableCells(trimmed) ==
  LET pieces == Split(trimmed, <<"|">>)
      inner == SubSeq(pieces, 2, Len(pieces) - 1)
  IN  [ k \in 1..Len(inner) |-> Trim(inner[k]) ]

\* The loop over tableLines, with the headers and rows collected so far.
RECURSIVE ParseTableRows(_, _, _)
ParseTableRows(tableLines, headers, rows) ==
  IF tableLines = << >>
  THEN [ headers |-> headers, rows |-> rows ]
  ELSE LET trimmed == Trim(Head(tableLines))
           rest == Tail(tableLines)
       IN  IF ~StartsWith(trimmed, <<"|">>)
           THEN ParseTableRows(rest, headers, rows)
           ELSE IF IsSeparatorRow(trimmed)
           THEN ParseTableRows(rest, headers, rows)
           ELSE IF Len(headers) = 0
           THEN ParseTableRows(rest, headers \o TableCells(trimmed), rows)
           ELSE ParseTableRows(rest, headers, Append(rows, TableCells(trimmed)))

\* Faulty variant of IsInfoTable: the cells are not looked at.
IsInfoTable_AnyTwoColumns(headers) == Len(headers) = 2

\* headers.length === 2 && headers.every(h => h === '')
IsInfoTable(headers) ==
  /\ Len(headers) = 2
  /\ \A k \in 1..Len(headers) : headers[k] = << >>

parseMarkdownTable(tableLines) ==
  LET r == ParseTableRows(tableLines, << >>, << >>)
  IN  [ headers |-> r.headers,
        rows |-> r.rows,
        isInfoTable |-> IsInfoTable(r.headers) ]

\* ---------------------------------------------------------- table builders
\* row[k] || '' (k counted from 0)
CellOr(row, k) == IF k + 1 <= Len(row) THEN row[k + 1] ELSE << >>

buildInfoTable(rows) ==
  Table(<<2500, 6860>>,
    [ r \in 1..Len(rows) |->
        TableRow(<<
          TableCell(LIGHT_GRAY, 2500, <<60, 60, 80, 80>>,
            << [ BaseParagraph EXCEPT !.children =
                   << TextRun(stripMd(CellOr(rows[r], 0)), TRUE, FALSE,
                              BLACK, 22, "Calibri") >> ] >>),
          TableCell(WHITE, 6860, <<60, 60, 80, 80>>,
            << [ BaseParagraph EXCEPT !.children =
                   << TextRun(stripMd(CellOr(rows[r], 1)), FALSE, FALSE,
                              BLACK, 22, "Calibri") >> ] >>) >>) ])

totalWidth == 9360

\* Faulty variant of ColWidths: every column gets the rounded-down share.
ColWidths_NoRemainder(n) == [ k \in 1..n |-> totalWidth \div n ]

\* headers.map((_, i) => i === headers.length - 1
\*   ? totalWidth - colWidth * (headers.length - 1) : colWidth), n >= 1
ColWidths(n) ==
  LET colWidth == totalWidth \div n
  IN  [ k \in 1..n |->
          IF k = n THEN totalWidth - colWidth * (n - 1) ELSE colWidth ]

\* Faulty variant of PaddedRow: the row is passed on as it is.
PaddedRow_NotPadded(row, n) == row

\* The row padded with '' up to the header count.
PaddedRow(row, n) ==
  [ k \in 1..(IF Len(row) < n THEN n ELSE Len(row)) |->
      IF k <= Len(row) THEN row[k] ELSE << >> ]

\* Faulty variant of DataRowFill: the parity test is inverted.
DataRowFill_EvenGray(idx) == IF idx % 2 = 1 THEN WHITE ELSE LIGHT_GRAY

\* idx % 2 === 1 ? LIGHT_GRAY : WHITE, idx counted from 0
DataRowFill(idx) == IF idx % 2 = 1 THEN LIGHT_GRAY ELSE WHITE

buildBrandTable(headers, rows, headerColor) ==
  IF Len(headers) = 0
  THEN Null
  ELSE LET n == Len(headers)
           colWidths == ColWidths(n)
       IN  Table(colWidths,
             << createHeaderRow(headers, colWidths, headerColor) >>
             \o [ r \in 1..Len(rows) |->
                    createDataRow(PaddedRow(rows[r], n), colWidths,
                      DataRowFill(r - 1), BLACK) ])

\* ---------------------------------------------------------- renderMarkdown
VARIABLES
  lines,              \* content.split('\n')
  i,                  \* index of the next line to scan, counted from 0
  h2Count,            \* H2 headings seen so far
  inCover,            \* cover state
  coverH1Done,
  coverSubtitleDone,
  elements,           \* the nodes emitted so far
  pc,                 \* "scan" inside the while loop, "done" after the return
  call,               \* a helper applied on its own: [fn, args, ret]
  JOBS,               \* the front end: jobs, newest first
  jobProgresses,      \* job id -> progress
  activeSSEJobs,      \* ids of the jobs whose SSE stream is being read
  sseBuffer,          \* the unterminated tail of the SSE text received
  CONTENT_ITEMS,      \* the content library
  net                 \* the page's surroundings: user, server, requests

\* The state of the front end (src/unnamed/part_000).
frontState ==
  << JOBS, jobProgresses, activeSSEJobs, sseBuffer, CONTENT_ITEMS, net >>

vars ==
  << lines, i, h2Count, inCover, coverH1Done, coverSubtitleDone, elements, pc,
     call, frontState >>

\* No page is open while the generator runs.
NoPage ==
  /\ JOBS = << >>
  /\ jobProgresses = << >>
  /\ activeSSEJobs = {}
  /\ sseBuffer = << >>
  /\ CONTENT_ITEMS = << >>
  /\ net = [ launches |-> 0, views |-> 0, conn |-> << >>, syncs |-> 0,
            response |-> [ kind |-> "none", items |-> << >> ],
            served |-> {} ]

\* No helper is applied on its own while renderMarkdown runs.
NoCall == [ fn |-> "none", args |-> << >>, ret |-> Null ]

COVER_END == <<"[","C","O","V","E","R","_","E","N","D","]">>
QUOTE == <<">", " ">>
PIPE == <<"|">>
AMP == <<" ", "&", " ">>

\* The lines Init builds documents from: at least one line for every branch
\* of the scanner, and the shapes the callout and table branches tell apart.
LinePool ==
  { COVER_END,
    <<">"," ","L","o","a","d","i","n","g"," ","x">>,
    <<">"," ","*","*","A","*","*">>,
    <<">"," ","-"," ","b">>,
    <<">"," ","a"," ","*","*","b","*","*">>,
    <<" ",">"," ","c">>,
    <<"|"," ","a"," ","|"," ","b"," ","|">>,
    <<"|","-","|","-","|">>,
    <<"|"," ","|"," ","|">>,
    <<"|"," ","|"," ","|","x">>,
    <<" ","|"," ","c"," ","|">>,
    <<"#"," ","A"," ","&"," ","B">>,
    <<"#","#"," ","S">>,
    <<"#","#","#"," ","U">>,
    <<"-"," ","i">>,
    <<"1","."," ","i">>,
    <<"-","-","-">>,
    << >>,
    <<"p">> }

\* Whole documents Init adds to the ones built from LinePool.
HelloWorld ==
  << <<"#"," ","H","e","l","l","o"," ","&"," ","W","o","r","l","d">>,
     <<"S","u","b","t","i","t","l","e"," ","t","e","x","t">>,
     COVER_END,
     <<"#","#"," ","S","e","c","t","i","o","n">> >>

PlainText ==
  << <<"p"," ","*","q","*">>, <<" ">>, <<"*","*","r","*","*">> >>

LongRule == << <<"-","-","-","-">> >>

TwoAmpersands == << <<"#"," ","A"," ","&"," ","B"," ","&"," ","C">> >>

OpenPipeRow == << <<"|"," ","a">> >>

Scenarios == { HelloWorld, PlainText, LongRule, TwoAmpersands, OpenPipeRow }

\* addSpacer(before, after)
Spacer(before, after) == [ BaseParagraph EXCEPT !.spacing = <<before, after>> ]

\* STATUS_PREFIXES.some(pfx => rawContent.startsWith(pfx))
IsStatusLine(rawContent) ==
  \E pfx \in STATUS_PREFIXES : StartsWith(rawContent, pfx)

\* The branch of the while loop that takes `line`: the first test that holds.
Dispatch(line) ==
  LET trimmed == Trim(line)
  IN  IF trimmed = COVER_END THEN "coverEnd"
      ELSE IF StartsWith(trimmed, QUOTE)
      THEN IF IsStatusLine(Trim(Slice(trimmed, 2))) THEN "status" ELSE "callout"
      ELSE IF StartsWith(trimmed, PIPE) /\ ~IsSeparatorRow(trimmed) THEN "table"
      ELSE IF StartsWith(line, <<"#", " ">>) THEN "h1"
      ELSE IF StartsWith(line, <<"#", "#", " ">>) THEN "h2"
      ELSE IF StartsWith(line, <<"#", "#", "#", " ">>) THEN "h3"
      ELSE IF StartsWith(line, <<"-", " ">>) \/ StartsWith(line, <<"*", " ">>)
      THEN "bullet"
      ELSE IF NumMatch(line) > 0 THEN "numbered"
      ELSE IF trimmed = <<"-", "-", "-">> THEN "rule"
      ELSE IF trimmed = << >> THEN "empty"
      ELSE "body"

\* The loop is at a line that `branch` takes.
At(branch) ==
  /\ pc = "scan"
  /\ i < Len(lines)
  /\ Dispatch(lines[i + 1]) = branch

\* Faulty variant of CalloutRunLength: the inner loop tests the raw line, so an
\* indented blockquote line starts a run that consumes nothing.
RECURSIVE CalloutRunLength_Untrimmed(_)
CalloutRunLength_Untrimmed(from) ==
  IF from < Len(lines) /\ StartsWith(lines[from + 1], QUOTE)
  THEN 1 + CalloutRunLength_Untrimmed(from + 1)
  ELSE 0

\* while (i < lines.length && lines[i].trim().startsWith('> ')) i++ : the
\* number of lines the loop passes, starting at index `from` (from 0).
RECURSIVE CalloutRunLength(_)
CalloutRunLength(from) ==
  IF from < Len(lines) /\ StartsWith(Trim(lines[from + 1]), QUOTE)
  THEN 1 + CalloutRunLength(from + 1)
  ELSE 0

\* Faulty variant of TableRunLength: the run ends before a separator row.
RECURSIVE TableRunLength_StopsAtSeparator(_)
TableRunLength_StopsAtSeparator(from) ==
  IF /\ from < Len(lines)
     /\ StartsWith(Trim(lines[from + 1]), PIPE)
     /\ ~IsSeparatorRow(Trim(lines[from + 1]))
  THEN 1 + TableRunLength_StopsAtSeparator(from + 1)
  ELSE 0

\* while (i < lines.length && lines[i].trim().startsWith('|')) i++
RECURSIVE TableRunLength(_)
TableRunLength(from) ==
  IF from < Len(lines) /\ StartsWith(Trim(lines[from + 1]), PIPE)
  THEN 1 + TableRunLength(from + 1)
  ELSE 0

Init ==
  /\ lines \in UNION { [1..n -> LinePool] : n \in 1..MaxLines } \cup Scenarios
  /\ i = 0
  /\ h2Count = 0
  /\ inCover = TRUE
  /\ coverH1Done = FALSE
  /\ coverSubtitleDone = FALSE
  /\ elements = << >>
  /\ pc = "scan"
  /\ call = NoCall
  /\ NoPage

\* Faulty variant of CoverEnd: the page break is emitted in cover mode only.
CoverEnd_OnlyInCover ==
  /\ At("coverEnd")
  /\ inCover' = FALSE
  /\ elements' =
       IF inCover
       THEN Append(elements,
              [ BaseParagraph EXCEPT !.pageBreak = TRUE, !.spacing = <<0, 0>> ])
       ELSE elements
  /\ i' = i + 1
  /\ UNCHANGED frontState
  /\ UNCHANGED << call, lines, h2Count, coverH1Done, coverSubtitleDone, pc >>

\* [COVER_END]: page break
CoverEnd ==
  /\ At("coverEnd")
  /\ inCover' = FALSE
  /\ elements' = Append(elements,
       [ BaseParagraph EXCEPT !.pageBreak = TRUE, !.spacing = <<0, 0>> ])
  /\ i' = i + 1
  /\ UNCHANGED frontState
  /\ UNCHANGED << call, lines, h2Count, coverH1Done, coverSubtitleDone, pc >>

\* Blockquote whose content starts with a status prefix: skipped
StatusSkip ==
  /\ At("status")
  /\ i' = i + 1
  /\ UNCHANGED frontState
  /\ UNCHANGED << call, lines, h2Count, inCover, coverH1Done, coverSubtitleDone,
                  elements, pc >>

\* Faulty variant of HasHeadline: the pattern lacks its anchors, so a first
\* line that merely holds a bold span passes.
HasHeadline_Unanchored(calloutLines) ==
  /\ Len(calloutLines) > 0
  /\ \E a \in 1..Len(calloutLines[1]) : \E b \in a..Len(calloutLines[1]) :
       IsEntirelyBold(SubSeq(calloutLines[1], a, b))

\* calloutLines.length > 0 && /^\*\*[^*]+\*\*$/.test(calloutLines[0])
HasHeadline(calloutLines) ==
  Len(calloutLines) > 0 /\ IsEntirelyBold(calloutLines[1])

\* calloutLines[0].replace(/^\*\*([^*]+)\*\*$/, '$1'), or '' without headline
CalloutHeadline(calloutLines) ==
  IF HasHeadline(calloutLines) THEN SliceMid(calloutLines[1], 2, 2) ELSE << >>

\* Faulty variant of CalloutBodyLines: the first line is always taken off,
\* headline or not.
CalloutBodyLines_DropsFirst(calloutLines) == Tail(calloutLines)

\* Faulty variant of CalloutBodyLines: the headline line stays in the body.
CalloutBodyLines_KeepsHeadline(calloutLines) == calloutLines

\* calloutLines.slice(1) under a headline, else every line
CalloutBodyLines(calloutLines) ==
  IF HasHeadline(calloutLines) THEN Tail(calloutLines) ELSE calloutLines

\* Blockquote: callout box
Callout ==
  /\ At("callout")
  /\ LET n == CalloutRunLength(i)
         calloutLines ==
           [ k \in 1..n |-> Trim(Slice(Trim(lines[i + k]), 2)) ]
         box == createCTABox(CalloutHeadline(calloutLines),
                             CalloutBodyLines(calloutLines))
     IN  /\ i' = i + n
         /\ elements' =
              elements
              \o << Spacer(80, 0) >>
              \o (IF box.type # "null" THEN << box >> ELSE << >>)
              \o << Spacer(0, 120) >>
  /\ UNCHANGED frontState
  /\ UNCHANGED << call, lines, h2Count, inCover, coverH1Done, coverSubtitleDone, pc >>

\* Faulty variant of TableHeaderColor: the header color ignores h2Count.
TableHeaderColor_Fixed(count) == ELECTRIC_BLUE

\* h2Count % 2 === 1 ? DARK_BLUE : ELECTRIC_BLUE, for a brand table header
TableHeaderColor(count) == IF count % 2 = 1 THEN DARK_BLUE ELSE ELECTRIC_BLUE

\* Markdown table
TableRun ==
  /\ At("table")
  /\ LET n == TableRunLength(i)
         tableLines == [ k \in 1..n |-> lines[i + k] ]
         t == parseMarkdownTable(tableLines)
         tbl == buildBrandTable(t.headers, t.rows, TableHeaderColor(h2Count))
     IN  /\ i' = i + n
         /\ elements' =
              IF t.isInfoTable
              THEN elements \o << buildInfoTable(t.rows), Spacer(0, 120) >>
              ELSE IF Len(t.headers) > 0 /\ tbl.type # "null"
              THEN elements \o << tbl, Spacer(0, 120) >>
              ELSE elements
  /\ UNCHANGED frontState
  /\ UNCHANGED << call, lines, h2Count, inCover, coverH1Done, coverSubtitleDone, pc >>

\* Faulty variant of SplitsCoverTitle: coverH1Done is not consulted.
SplitsCoverTitle_EveryTime(title) == inCover /\ Includes(title, AMP)

\* inCover && !coverH1Done && title.includes(' & ')
SplitsCoverTitle(title) == inCover /\ ~coverH1Done /\ Includes(title, AMP)

\* Faulty variant of CoverTitleParagraphs: the second line lacks the '& '.
CoverTitleParagraphs_DropsAmpersand(title) ==
  LET parts == SplitLimit(title, AMP, 2)
  IN  << [ BaseParagraph EXCEPT
             !.alignment = "CENTER",
             !.spacing = <<480, 0>>,
             !.children = << TextRun(parts[1], TRUE, FALSE, ELECTRIC_BLUE, 48,
                                     "Bebas Neue") >> ],
         [ BaseParagraph EXCEPT
             !.alignment = "CENTER",
             !.spacing = <<0, 120>>,
             !.children = << TextRun(parts[2], TRUE, FALSE, DARK_BLUE, 76,
                                     "Bebas Neue") >> ] >>

\* The two centered paragraphs of the cover title.
CoverTitleParagraphs(title) ==
  LET parts == SplitLimit(title, AMP, 2)
      preAmp == parts[1]
      postAmp == parts[2]
  IN  << [ BaseParagraph EXCEPT
             !.alignment = "CENTER",
             !.spacing = <<480, 0>>,
             !.children = << TextRun(preAmp, TRUE, FALSE, ELECTRIC_BLUE, 48,
                                     "Bebas Neue") >> ],
         [ BaseParagraph EXCEPT
             !.alignment = "CENTER",
             !.spacing = <<0, 120>>,
             !.children = << TextRun(<<"&", " ">> \o postAmp, TRUE, FALSE,
                                     DARK_BLUE, 76, "Bebas Neue") >> ] >>

\* Body H1
BodyH1Paragraph(title) ==
  [ BaseParagraph EXCEPT
      !.heading = "Heading1",
      !.spacing = <<360, 160>>,
      !.children = << TextRun(title, TRUE, FALSE, DARK_BLUE, 40, "Bebas Neue") >> ]

\* H1
H1 ==
  /\ At("h1")
  /\ LET title == Trim(Slice(lines[i + 1], 2))
     IN  IF SplitsCoverTitle(title)
         THEN /\ coverH1Done' = TRUE
              /\ elements' = elements \o CoverTitleParagraphs(title)
         ELSE /\ coverH1Done' = coverH1Done
              /\ elements' = Append(elements, BodyH1Paragraph(title))
  /\ i' = i + 1
  /\ UNCHANGED frontState
  /\ UNCHANGED << call, lines, h2Count, inCover, coverSubtitleDone, pc >>

\* Faulty variant of H2Color: the parity test is inverted.
H2Color_Swapped(count) == IF count % 2 = 1 THEN ELECTRIC_BLUE ELSE DARK_BLUE

\* h2Count % 2 === 1 ? DARK_BLUE : ELECTRIC_BLUE, for an H2 heading
H2Color(count) == IF count % 2 = 1 THEN DARK_BLUE ELSE ELECTRIC_BLUE

\* Faulty variant of H2: the heading does not end cover mode.
H2_KeepsCover ==
  /\ At("h2")
  /\ h2Count' = h2Count + 1
  /\ elements' = Append(elements,
       [ BaseParagraph EXCEPT
           !.heading = "Heading2",
           !.spacing = <<300, 100>>,
           !.children = << TextRun(Trim(Slice(lines[i + 1], 3)), TRUE, FALSE,
                                   H2Color(h2Count'), 36, "Bebas Neue") >> ])
  /\ i' = i + 1
  /\ UNCHANGED frontState
  /\ UNCHANGED << call, lines, inCover, coverH1Done, coverSubtitleDone, pc >>

\* H2
H2 ==
  /\ At("h2")
  /\ h2Count' = h2Count + 1
  /\ inCover' = FALSE
  /\ elements' = Append(elements,
       [ BaseParagraph EXCEPT
           !.heading = "Heading2",
           !.spacing = <<300, 100>>,
           !.children = << TextRun(Trim(Slice(lines[i + 1], 3)), TRUE, FALSE,
                                   H2Color(h2Count'), 36, "Bebas Neue") >> ])
  /\ i' = i + 1
  /\ UNCHANGED frontState
  /\ UNCHANGED << call, lines, coverH1Done, coverSubtitleDone, pc >>

\* Faulty variant of H3: the sub-heading is counted as an H2.
H3_CountsAsH2 ==
  /\ At("h3")
  /\ h2Count' = h2Count + 1
  /\ elements' = Append(elements,
       [ BaseParagraph EXCEPT
           !.heading = "Heading3",
           !.spacing = <<200, 80>>,
           !.children = << TextRun(Trim(Slice(lines[i + 1], 4)), TRUE, FALSE,
                                   BLACK, 26, "Bebas Neue") >> ])
  /\ i' = i + 1
  /\ UNCHANGED frontState
  /\ UNCHANGED << call, lines, inCover, coverH1Done, coverSubtitleDone, pc >>

\* H3
H3 ==
  /\ At("h3")
  /\ elements' = Append(elements,
       [ BaseParagraph EXCEPT
           !.heading = "Heading3",
           !.spacing = <<200, 80>>,
           !.children = << TextRun(Trim(Slice(lines[i + 1], 4)), TRUE, FALSE,
                                   BLACK, 26, "Bebas Neue") >> ])
  /\ i' = i + 1
  /\ UNCHANGED frontState
  /\ UNCHANGED << call, lines, h2Count, inCover, coverH1Done, coverSubtitleDone, pc >>

\* Bullet list
Bullet ==
  /\ At("bullet")
  /\ elements' = Append(elements,
       [ BaseParagraph EXCEPT
           !.bullet = TRUE,
           !.spacing = <<40, 40>>,
           !.indentLeft = 360,
           !.children = parseInline(Trim(Slice(lines[i + 1], 2)), DefaultOpts) ])
  /\ i' = i + 1
  /\ UNCHANGED frontState
  /\ UNCHANGED << call, lines, h2Count, inCover, coverH1Done, coverSubtitleDone, pc >>

\* Numbered list
Numbered ==
  /\ At("numbered")
  /\ elements' = Append(elements,
       [ BaseParagraph EXCEPT
           !.numbering = "num-list-1",
           !.spacing = <<40, 40>>,
           !.indentLeft = 360,
           !.children =
             parseInline(Trim(Slice(lines[i + 1], NumMatch(lines[i + 1]))),
                         DefaultOpts) ])
  /\ i' = i + 1
  /\ UNCHANGED frontState
  /\ UNCHANGED << call, lines, h2Count, inCover, coverH1Done, coverSubtitleDone, pc >>

\* Horizontal rule
Rule ==
  /\ At("rule")
  /\ elements' = Append(elements,
       [ BaseParagraph EXCEPT
           !.spacing = <<120, 120>>,
           !.borderBottom = ELECTRIC_BLUE ])
  /\ i' = i + 1
  /\ UNCHANGED frontState
  /\ UNCHANGED << call, lines, h2Count, inCover, coverH1Done, coverSubtitleDone, pc >>

\* Empty line
Empty ==
  /\ At("empty")
  /\ elements' = Append(elements, Spacer(0, 60))
  /\ i' = i + 1
  /\ UNCHANGED frontState
  /\ UNCHANGED << call, lines, h2Count, inCover, coverH1Done, coverSubtitleDone, pc >>

\* Faulty variant of IsCoverSubtitle: coverSubtitleDone is not consulted.
IsCoverSubtitle_EveryLine == inCover /\ coverH1Done

\* Faulty variant of IsCoverSubtitle: coverH1Done is not consulted.
IsCoverSubtitle_BeforeTitle == inCover /\ ~coverSubtitleDone

\* inCover && coverH1Done && !coverSubtitleDone
IsCoverSubtitle == inCover /\ coverH1Done /\ ~coverSubtitleDone

\* Body text / cover subtitle
Body ==
  /\ At("body")
  /\ LET text == Trim(lines[i + 1])
     IN  IF IsCoverSubtitle
         THEN /\ coverSubtitleDone' = TRUE
              /\ elements' = Append(elements,
                   [ BaseParagraph EXCEPT
                       !.alignment = "CENTER",
                       !.spacing = <<0, 200>>,
                       !.children = << TextRun(text, FALSE, TRUE, MEDIUM_GRAY,
                                               26, "Calibri") >> ])
         ELSE /\ coverSubtitleDone' = coverSubtitleDone
              /\ elements' = Append(elements,
                   [ BaseParagraph EXCEPT
                       !.spacing = <<0, 80>>,
                       !.children = parseInline(text, DefaultOpts) ])
  /\ i' = i + 1
  /\ UNCHANGED frontState
  /\ UNCHANGED << call, lines, h2Count, inCover, coverH1Done, pc >>

\* The while condition fails: return elements
Return ==
  /\ pc = "scan"
  /\ i >= Len(lines)
  /\ pc' = "done"
  /\ UNCHANGED frontState
  /\ UNCHANGED << call, lines, i, h2Count, inCover, coverH1Done, coverSubtitleDone,
                  elements >>

Next ==
  \/ CoverEnd
  \/ StatusSkip
  \/ Callout
  \/ TableRun
  \/ H1
  \/ H2
  \/ H3
  \/ Bullet
  \/ Numbered
  \/ Rule
  \/ Empty
  \/ Body
  \/ Return

Spec == Init /\ [][Next]_vars

\* ------------------------------------------------ the helpers on their own
\* Longest text, in characters, handed to parseInline.
MaxText == 6
\* Most header cells of a table; a data row has up to one cell more.
MaxCols == 7
\* Most data rows of a table, and most body lines of a callout box.
MaxRows == 2

InlineAlphabet == {"a", "b", "*"}
InlineTexts == UNION { [1..n -> InlineAlphabet] : n \in 0..MaxText }

\* The opts of a parseInline call: every combination of the base flags, in
\* the body style and in another one.
OptsPool ==
  { [ color |-> st[1], size |-> st[2], font |-> "Calibri",
      bold |-> b, italic |-> it ] :
      st \in { <<BLACK, 22>>, <<MEDIUM_GRAY, 20>> },
      b \in BOOLEAN, it \in BOOLEAN }

DigitChar == <<"1", "2", "3", "4", "5", "6", "7", "8", "9">>

\* Header and data cells that differ from column to column.
HeaderCell(k) == <<"h", DigitChar[k]>>
DataCell(k) == <<"c", DigitChar[k]>>
HeadersOf(n) == [ k \in 1..n |-> HeaderCell(k) ]
RowOf(m) == [ k \in 1..m |-> DataCell(k) ]
RowLists ==
  UNION { [1..r -> { RowOf(m) : m \in 0..(MaxCols + 1) }] : r \in 0..MaxRows }

\* Lines of a pipe-delimited block, by the header list they give: two cells,
\* none (separator rows), two empty cells, one cell, no cell, one empty cell,
\* three empty cells, one empty cell of two, and a row of two cells written
\* without its closing pipe.
TableLinePool ==
  { <<"|"," ","a"," ","|"," ","b"," ","|">>,
    <<"|","-","|","-","|">>,
    <<"|"," ","|"," ","|">>,
    <<"|"," ","|"," ","|","x">>,
    <<" ","|"," ","c"," ","|">>,
    <<"|","x">>,
    <<"|"," ","|","x">>,
    <<"|","|","|","|","x">>,
    <<"|","a","|"," ","|">>,
    <<"|"," ","|","b","|">>,
    <<"|"," ","a"," ","|"," ","b">> }

CalloutLinePool ==
  { << >>, <<" ">>, <<"-"," ","b">>, <<"a"," ","*","*","b","*","*">>, <<"c">> }

Called(fn, args) == [ fn |-> fn, args |-> args, ret |-> Null ]

InlineCalls ==
  { Called("parseInline", <<t, o>>) : t \in InlineTexts, o \in OptsPool }
ParseCalls ==
  { Called("parseMarkdownTable", <<tl>>) :
      tl \in UNION { [1..n -> TableLinePool] : n \in 1..(MaxRows + 1) } }
BrandCalls ==
  { Called("buildBrandTable", <<HeadersOf(n), rows, c>>) :
      n \in 1..MaxCols, rows \in RowLists, c \in {DARK_BLUE, ELECTRIC_BLUE} }
InfoCalls == { Called("buildInfoTable", <<rows>>) : rows \in RowLists }
CTACalls ==
  { Called("createCTABox", <<h, bl>>) :
      h \in { << >>, <<"A">> },
      bl \in UNION { [1..n -> CalloutLinePool] : n \in 0..MaxRows } }

HelperInit ==
  /\ NoPage
  /\ \/ call \in InlineCalls
     \/ call \in ParseCalls
     \/ call \in BrandCalls
     \/ call \in InfoCalls
     \/ call \in CTACalls
  /\ pc = "call"
  /\ lines = << << >> >>
  /\ i = 0
  /\ h2Count = 0
  /\ inCover = TRUE
  /\ coverH1Done = FALSE
  /\ coverSubtitleDone = FALSE
  /\ elements = << >>

\* What renderMarkdown owns, untouched by a helper applied on its own.
renderState ==
  << lines, i, h2Count, inCover, coverH1Done, coverSubtitleDone, elements >>

\* The helper `fn` is about to be applied.
Calling(fn) == pc = "call" /\ call.fn = fn

ParseInlineCall ==
  /\ Calling("parseInline")
  /\ UNCHANGED frontState
  /\ call' = [ call EXCEPT !.ret = parseInline(call.args[1], call.args[2]) ]
  /\ pc' = "returned"
  /\ UNCHANGED renderState

ParseMarkdownTableCall ==
  /\ Calling("parseMarkdownTable")
  /\ UNCHANGED frontState
  /\ call' = [ call EXCEPT !.ret = parseMarkdownTable(call.args[1]) ]
  /\ pc' = "returned"
  /\ UNCHANGED renderState

BuildBrandTableCall ==
  /\ Calling("buildBrandTable")
  /\ UNCHANGED frontState
  /\ call' = [ call EXCEPT !.ret = 
       buildBrandTable(call.args[1], call.args[2], call.args[3]) ]
  /\ pc' = "returned"
  /\ UNCHANGED renderState

BuildInfoTableCall ==
  /\ Calling("buildInfoTable")
  /\ UNCHANGED frontState
  /\ call' = [ call EXCEPT !.ret = buildInfoTable(call.args[1]) ]
  /\ pc' = "returned"
  /\ UNCHANGED renderState

CreateCTABoxCall ==
  /\ Calling("createCTABox")
  /\ UNCHANGED frontState
  /\ call' = [ call EXCEPT !.ret = createCTABox(call.args[1], call.args[2]) ]
  /\ pc' = "returned"
  /\ UNCHANGED renderState

HelperNext ==
  \/ ParseInlineCall
  \/ ParseMarkdownTableCall
  \/ BuildBrandTableCall
  \/ BuildInfoTableCall
  \/ CreateCTABoxCall

HelperSpec == HelperInit /\ [][HelperNext]_vars

\* The helper `fn` has returned.
Returned(fn) == pc = "returned" /\ call.fn = fn

\* ------------------------------------------------- successive invocations
\* renderMarkdown invoked three times in one process: on a document, then on
\* another one, then on the first again.  `call.args` holds the three
\* contents and `call.ret` the node lists returned so far.
MaxRepeatLines == 1

RepeatDocs ==
  UNION { [1..n -> LinePool] : n \in 1..MaxRepeatLines } \cup Scenarios

EarlierDocs == { << l >> : l \in LinePool } \cup Scenarios

RepeatInit ==
  \E B \in RepeatDocs, A \in EarlierDocs :
    /\ NoPage
    /\ call = [ fn |-> "renderMarkdown", args |-> << B, A, B >>, ret |-> << >> ]
    /\ lines = B
    /\ i = 0
    /\ h2Count = 0
    /\ inCover = TRUE
    /\ coverH1Done = FALSE
    /\ coverSubtitleDone = FALSE
    /\ elements = << >>
    /\ pc = "scan"

\* Faulty variant of Invoke: h2Count outlives the call, as a counter kept at
\* module level would.
Invoke_KeepsH2Count ==
  /\ pc = "done"
  /\ call.fn = "renderMarkdown"
  /\ UNCHANGED frontState
  /\ Len(call.ret) < Len(call.args)
  /\ call' = [ call EXCEPT !.ret = Append(call.ret, elements) ]
  /\ IF Len(call.ret') < Len(call.args)
     THEN /\ lines' = call.args[Len(call.ret') + 1]
          /\ i' = 0
          /\ h2Count' = h2Count
          /\ inCover' = TRUE
          /\ coverH1Done' = FALSE
          /\ coverSubtitleDone' = FALSE
          /\ elements' = << >>
          /\ pc' = "scan"
     ELSE /\ pc' = "returned"
          /\ UNCHANGED renderState

\* The caller takes the returned elements and, while a content is left,
\* calls renderMarkdown on it: the function's locals are declared anew.
Invoke ==
  /\ pc = "done"
  /\ call.fn = "renderMarkdown"
  /\ UNCHANGED frontState
  /\ Len(call.ret) < Len(call.args)
  /\ call' = [ call EXCEPT !.ret = Append(call.ret, elements) ]
  /\ IF Len(call.ret') < Len(call.args)
     THEN /\ lines' = call.args[Len(call.ret') + 1]
          /\ i' = 0
          /\ h2Count' = 0
          /\ inCover' = TRUE
          /\ coverH1Done' = FALSE
          /\ coverSubtitleDone' = FALSE
          /\ elements' = << >>
          /\ pc' = "scan"
     ELSE /\ pc' = "returned"
          /\ UNCHANGED renderState

RepeatNext ==
  \/ Next
  \/ Invoke

RepeatSpec == RepeatInit /\ [][RepeatNext]_vars

\* ------------------------------------------------------------------- main
\* The entry point, one process from start to exit.  `call.args` holds what
\* the process is given (the command-line arguments after the script name,
\* what the input file yields, whether the output path can be written) and
\* `call.ret` what it has done so far: the lines on the two streams, the
\* steps of the generation attempted with their outcome, whether the output
\* file was written, and the exit code ("" while running).
Argvs ==
  { << >>, << "in.json" >>, << "in.json", "out.docx" >>,
    << "in.json", "out.docx", "extra" >> }

\* What reading and parsing the input file gives: the read or the parse
\* throws, or the JSON is null, or it is an object.
JsonKinds == { "unreadable", "invalid", "null", "object" }

\* The content field: missing, a number, or a string (then `lines` of it).
ContentTypes == { "undefined", "number", "string" }

JobContents == EarlierDocs

MainCalls ==
  { [ fn |-> "main",
      args |-> [ argv |-> av, json |-> j, contentType |-> ct, content |-> c,
                 client_name |-> cn, workflow_title |-> wt, writable |-> w ],
      ret |-> [ stdout |-> << >>, stderr |-> << >>, steps |-> << >>,
                written |-> FALSE, exitCode |-> "" ] ] :
      av \in Argvs, j \in JsonKinds, ct \in ContentTypes, c \in JobContents,
      cn \in { << >>, <<"c">> }, wt \in { << >>, <<"w">> }, w \in BOOLEAN }

MainInit ==
  /\ NoPage
  /\ call \in MainCalls
  /\ pc = "args"
  /\ lines = << << >> >>
  /\ i = 0
  /\ h2Count = 0
  /\ inCover = TRUE
  /\ coverH1Done = FALSE
  /\ coverSubtitleDone = FALSE
  /\ elements = << >>

InMain(at) == call.fn = "main" /\ pc = at

\* console.error(msg); process.exit(1)
ExitWithError(ret, msg) ==
  [ ret EXCEPT !.stderr = Append(@, msg), !.exitCode = 1 ]

\* Faulty variant of CatchGenerationError: the error is logged and main
\* returns, so that the process ends with code 0.
CatchGenerationError_NoExit(ret, step) ==
  [ ret EXCEPT !.steps = Append(@, << step, "throw" >>),
               !.stderr = Append(@, "DOCX generation failed"),
               !.exitCode = 0 ]

\* `step` throws inside the last try block: the catch clause reports it and
\* ends the process.
CatchGenerationError(ret, step) ==
  ExitWithError([ ret EXCEPT !.steps = Append(@, << step, "throw" >>) ],
                "DOCX generation failed")

Attempted(ret, step) == [ ret EXCEPT !.steps = Append(@, << step, "ok" >>) ]

\* if (args.length < 2) { usage; exit(1) }
CheckArgs ==
  /\ InMain("args")
  /\ UNCHANGED frontState
  /\ IF Len(call.args.argv) < 2
     THEN /\ call' = [ call EXCEPT !.ret = ExitWithError(@, "Usage") ]
          /\ pc' = "exited"
     ELSE /\ pc' = "read"
          /\ UNCHANGED call
  /\ UNCHANGED renderState

\* jobData = JSON.parse(fs.readFileSync(inputPath, 'utf8')), in its try
ReadInput ==
  /\ InMain("read")
  /\ UNCHANGED frontState
  /\ IF call.args.json \in { "unreadable", "invalid" }
     THEN /\ call' = [ call EXCEPT
                         !.ret = ExitWithError(@, "Failed to read input JSON") ]
          /\ pc' = "exited"
     ELSE /\ pc' = "fields"
          /\ UNCHANGED call
  /\ UNCHANGED renderState

\* !content: undefined, the number 0 aside a number is truthy, '' is falsy
ContentMissing(args) ==
  \/ args.contentType = "undefined"
  \/ args.contentType = "string" /\ args.content = << << >> >>

\* The destructuring of jobData, outside any try, and the test of the three
\* fields.
CheckFields ==
  /\ InMain("fields")
  /\ UNCHANGED frontState
  /\ IF call.args.json = "null"
     THEN /\ call' = [ call EXCEPT !.ret = ExitWithError(@, "Uncaught TypeError") ]
          /\ pc' = "exited"
     ELSE IF \/ ContentMissing(call.args)
             \/ call.args.client_name = << >>
             \/ call.args.workflow_title = << >>
     THEN /\ call' = [ call EXCEPT
                         !.ret = ExitWithError(@, "Input JSON must have fields") ]
          /\ pc' = "exited"
     ELSE /\ pc' = "build"
          /\ UNCHANGED call
  /\ UNCHANGED renderState

\* buildDocument(content, ...) enters renderMarkdown: content.split throws
\* on a content that is not a string, else the scan of its lines starts.
BuildDocument ==
  /\ InMain("build")
  /\ UNCHANGED frontState
  /\ IF call.args.contentType # "string"
     THEN /\ call' = [ call EXCEPT
                         !.ret = CatchGenerationError(@, "buildDocument") ]
          /\ pc' = "exited"
          /\ UNCHANGED renderState
     ELSE /\ call' = [ call EXCEPT !.ret = Attempted(@, "buildDocument") ]
          /\ lines' = call.args.content
          /\ pc' = "scan"
          /\ UNCHANGED << i, h2Count, inCover, coverH1Done, coverSubtitleDone,
                          elements >>

\* await Packer.toBuffer(doc), once renderMarkdown has returned and the
\* document is built; the packer may throw.
PackToBuffer ==
  /\ InMain("done")
  /\ UNCHANGED frontState
  /\ \E throws \in BOOLEAN :
       IF throws
       THEN /\ call' = [ call EXCEPT
                           !.ret = CatchGenerationError(@, "toBuffer") ]
            /\ pc' = "exited"
       ELSE /\ call' = [ call EXCEPT !.ret = Attempted(@, "toBuffer") ]
            /\ pc' = "write"
  /\ UNCHANGED renderState

\* fs.writeFileSync(outputPath, buffer)
WriteFile ==
  /\ InMain("write")
  /\ UNCHANGED frontState
  /\ IF ~call.args.writable
     THEN /\ call' = [ call EXCEPT
                         !.ret = CatchGenerationError(@, "writeFileSync") ]
          /\ pc' = "exited"
     ELSE /\ call' = [ call EXCEPT
                         !.ret = [ Attempted(@, "writeFileSync") EXCEPT
                                     !.written = TRUE ] ]
          /\ pc' = "ok"
  /\ UNCHANGED renderState

\* console.log('OK:' + outputPath); main returns and the process ends.
PrintOK ==
  /\ InMain("ok")
  /\ UNCHANGED frontState
  /\ call' = [ call EXCEPT
                 !.ret = [ @ EXCEPT
                             !.stdout = Append(@, << "OK:", call.args.argv[2] >>),
                             !.exitCode = 0 ] ]
  /\ pc' = "exited"
  /\ UNCHANGED renderState

MainNext ==
  \/ CheckArgs
  \/ ReadInput
  \/ CheckFields
  \/ BuildDocument
  \/ Next
  \/ PackToBuffer
  \/ WriteFile
  \/ PrintOK

MainSpec == MainInit /\ [][MainNext]_vars

\* -------------------------------------------------------------- front end
\* The page script (src/unnamed/part_000): launching workflows, reading
\* their SSE streams, the progress timer and the content library.  What the
\* script draws (terminal, monitor, lists, toasts, log entries) is left out.
\*
\* `net` holds the page's surroundings: how many workflows the user will
\* still launch and how often they will still open the content view, one
\* connection per launched job in launch order (its workflow, where it
\* stands, the text the server streams, how much of it was read, and the
\* lines processSSEChunk handled for the job), the texts the backend may
\* stream, the content requests in flight and the response received last.
MaxLaunches == 2
MaxViews == 2
MaxItems == 2

liveWorkflows ==
  { "home-service-content", "website-seo-audit", "prospect-audit",
    "keyword-gap", "seo-blog-post", "service-page", "location-page",
    "programmatic-content" }

\* The workflows the user picks from: one with a backend, one without.
WorkflowIds == { "seo-blog-post", "schema-generator" }

\* SSE text.  An event is a line 'data: <json>'; the JSON payloads of the
\* model are one character each: T a token, E an error, U and V a done
\* event with that server job id, anything else not JSON.
DATA == <<"d", "a", "t", "a", ":", " ">>
Event(payload) == DATA \o payload \o << "\n" >>

\* JSON.parse(line.slice(6)), by the type of the event and its job_id
ParseEvent(text) ==
  IF text = <<"T">> THEN [ type |-> "token", job_id |-> "" ]
  ELSE IF text = <<"E">> THEN [ type |-> "error", job_id |-> "" ]
  ELSE IF text \in { <<"U">>, <<"V">> }
  THEN [ type |-> "done", job_id |-> text[1] ]
  ELSE [ type |-> "malformed", job_id |-> "" ]

\* What a server may stream: a token and done; a token and no done; done
\* and then an error; done twice; a comment, a line that is not JSON and an
\* unterminated token; an error.
StreamPool ==
  { Event(<<"T">>) \o Event(<<"U">>),
    Event(<<"T">>),
    Event(<<"U">>) \o Event(<<"E">>),
    Event(<<"U">>) \o Event(<<"U">>),
    <<":", "c", "\n">> \o Event(<<"?">>) \o DATA \o <<"T">>,
    Event(<<"E">>) }

\* What GET /api/content may give: a rejected fetch, a response that is not
\* ok, or a list of items, by job_id, which may repeat a job.
ContentResponses ==
  { [ kind |-> "rejected", items |-> << >> ],
    [ kind |-> "notOk", items |-> << >> ] }
  \cup { [ kind |-> "ok", items |-> its ] :
           its \in UNION { [1..n -> {"U", "W"}] : n \in 0..MaxItems } }

\* What the generator owns, untouched by the page.
backState ==
  << lines, i, h2Count, inCover, coverH1Done, coverSubtitleDone, elements, pc,
     call >>

PageInit ==
  /\ JOBS = << >>
  /\ jobProgresses = << >>
  /\ activeSSEJobs = {}
  /\ sseBuffer = << >>
  /\ CONTENT_ITEMS = << >>
  /\ net \in { [ launches |-> n, views |-> v, conn |-> << >>, syncs |-> 0,
                 response |-> [ kind |-> "none", items |-> << >> ],
                 served |-> texts ] :
                 n \in 1..MaxLaunches, v \in 0..MaxViews,
                 texts \in { StreamPool, { Event(<<"T">>) } } }
  /\ lines = << << >> >>
  /\ i = 0
  /\ h2Count = 0
  /\ inCover = TRUE
  /\ coverH1Done = FALSE
  /\ coverSubtitleDone = FALSE
  /\ elements = << >>
  /\ pc = "page"
  /\ call = NoCall

\* The list of jobs with the status, or the server_job_id, of one set.
WithStatus(jobs, id, status) ==
  [ k \in 1..Len(jobs) |->
      IF jobs[k].id = id THEN [ jobs[k] EXCEPT !.status = status ] ELSE jobs[k] ]
WithServerJobId(jobs, id, sid) ==
  [ k \in 1..Len(jobs) |->
      IF jobs[k].id = id THEN [ jobs[k] EXCEPT !.server_job_id = sid ]
      ELSE jobs[k] ]

\* jobProgresses[id] = value.  Of the number the model keeps whether it has
\* reached 100: 0 stands for any progress below 100.
WithProgress(progresses, id, value) ==
  [ k \in DOMAIN progresses \cup { id } |->
      IF k = id THEN value ELSE progresses[k] ]

\* Faulty variant of InLibrary: the search finds nothing.
InLibrary_NeverFound(items, jobId) == FALSE

\* CONTENT_ITEMS.find(c => c.job_id === jobId)
InLibrary(items, jobId) == \E c \in 1..Len(items) : items[c].job_id = jobId

\* addToContentLibrary(jobId, ...): the list it leaves
addToContentLibrary(items, jobId) ==
  IF InLibrary(items, jobId)
  THEN items
  ELSE << [ id |-> jobId, job_id |-> jobId ] >> \o items

\* data.items.forEach(item => { if (!CONTENT_ITEMS.find(...)) push })
RECURSIVE PushNewItems(_, _)
PushNewItems(items, received) ==
  IF received = << >>
  THEN items
  ELSE PushNewItems(
         IF InLibrary(items, Head(received))
         THEN items
         ELSE Append(items, [ id |-> Head(received),
                              job_id |-> Head(received) ]),
         Tail(received))

\* One 'data: ' line handled for job `id`, on the globals in `st`.
HandleEvent(st, line, id) ==
  LET data == ParseEvent(Slice(line, 6))
      seen == [ st EXCEPT !.handled = Append(@, line) ]
  IN  IF data.type = "token"
      THEN [ seen EXCEPT !.jobProgresses = WithProgress(@, id, 0) ]
      ELSE IF data.type = "done"
      THEN [ seen EXCEPT
               !.JOBS = WithServerJobId(WithStatus(@, id, "completed"), id,
                                        data.job_id),
               !.jobProgresses = WithProgress(@, id, 100),
               !.CONTENT_ITEMS = addToContentLibrary(@, data.job_id) ]
      ELSE IF data.type = "error"
      THEN [ seen EXCEPT !.JOBS = WithStatus(@, id, "failed") ]
      ELSE seen

\* for (const line of lines) { if (!line.startsWith('data: ')) continue; ... }
RECURSIVE HandleLines(_, _, _)
HandleLines(st, ls, id) ==
  IF ls = << >>
  THEN st
  ELSE HandleLines(
         IF StartsWith(Head(ls), DATA) THEN HandleEvent(st, Head(ls), id) ELSE st,
         Tail(ls), id)

\* Faulty variant of KeptTail: nothing is kept between chunks.
KeptTail_Dropped(pieces) == << >>

\* sseBuffer = lines.pop(): the last, possibly incomplete line
KeptTail(pieces) == pieces[Len(pieces)]

\* processSSEChunk(chunk, job): the globals it leaves, with the buffer
processSSEChunk(st, buffer, chunk, id) ==
  LET pieces == Split(buffer \o chunk, << "\n" >>)
      complete == SubSeq(pieces, 1, Len(pieces) - 1)
  IN  [ st |-> HandleLines(st, complete, id), sseBuffer |-> KeptTail(pieces) ]

Conn(k) == net.conn[k]

\* launchWorkflow up to its first await: the job is created and shown, and
\* the request is sent or, for a workflow without backend, the timeout set.
LaunchWorkflow ==
  /\ net.launches > 0
  /\ \E selectedWorkflow \in WorkflowIds :
       LET newJob == [ id |-> 4822 + Len(JOBS), wf |-> selectedWorkflow,
                       status |-> "running", server_job_id |-> "" ]
       IN  /\ JOBS' = << newJob >> \o JOBS
           /\ jobProgresses' = WithProgress(jobProgresses, newJob.id, 0)
           /\ sseBuffer' = << >>
           /\ net' = [ net EXCEPT
                !.launches = @ - 1,
                !.conn = Append(@,
                  [ job |-> newJob.id,
                    phase |-> IF selectedWorkflow \in liveWorkflows
                              THEN "fetch" ELSE "timeout",
                    text |-> << >>, pos |-> 0, handled |-> << >> ]) ]
  /\ UNCHANGED << activeSSEJobs, CONTENT_ITEMS >>
  /\ UNCHANGED backState

\* The catch clause of launchWorkflow
ConnectionError(k) ==
  /\ activeSSEJobs' = activeSSEJobs \ { Conn(k).job }
  /\ JOBS' = WithStatus(JOBS, Conn(k).job, "failed")
  /\ net' = [ net EXCEPT !.conn[k].phase = "end" ]

\* await fetch(...) settles: rejected or not ok, the error is caught; else
\* the buffer is emptied and the job registered as streaming.
FetchSettles(k) ==
  /\ k \in DOMAIN net.conn
  /\ Conn(k).phase = "fetch"
  /\ \/ /\ ConnectionError(k)
        /\ UNCHANGED sseBuffer
     \/ \E text \in net.served :
          /\ sseBuffer' = << >>
          /\ activeSSEJobs' = activeSSEJobs \cup { Conn(k).job }
          /\ net' = [ net EXCEPT !.conn[k].phase = "read", !.conn[k].text = text ]
          /\ UNCHANGED JOBS
  /\ UNCHANGED << jobProgresses, CONTENT_ITEMS >>
  /\ UNCHANGED backState

\* reader.read() gives a chunk of any length: processSSEChunk(chunk, newJob)
ReadChunk(k) ==
  /\ k \in DOMAIN net.conn
  /\ Conn(k).phase = "read"
  /\ \E n \in 1..(Len(Conn(k).text) - Conn(k).pos) :
       LET chunk == SubSeq(Conn(k).text, Conn(k).pos + 1, Conn(k).pos + n)
           out == processSSEChunk(
                    [ JOBS |-> JOBS, jobProgresses |-> jobProgresses,
                      CONTENT_ITEMS |-> CONTENT_ITEMS,
                      handled |-> Conn(k).handled ],
                    sseBuffer, chunk, Conn(k).job)
       IN  /\ JOBS' = out.st.JOBS
           /\ jobProgresses' = out.st.jobProgresses
           /\ CONTENT_ITEMS' = out.st.CONTENT_ITEMS
           /\ sseBuffer' = out.sseBuffer
           /\ net' = [ net EXCEPT !.conn[k].pos = @ + n,
                                  !.conn[k].handled = out.st.handled ]
  /\ UNCHANGED activeSSEJobs
  /\ UNCHANGED backState

\* reader.read() gives done: break, and the finally clause
StreamEnds(k) ==
  /\ k \in DOMAIN net.conn
  /\ Conn(k).phase = "read"
  /\ Conn(k).pos = Len(Conn(k).text)
  /\ activeSSEJobs' = activeSSEJobs \ { Conn(k).job }
  /\ net' = [ net EXCEPT !.conn[k].phase = "end" ]
  /\ UNCHANGED << JOBS, jobProgresses, sseBuffer, CONTENT_ITEMS >>
  /\ UNCHANGED backState

\* reader.read() rejects: the finally clause, then the catch clause
ReadFails(k) ==
  /\ k \in DOMAIN net.conn
  /\ Conn(k).phase = "read"
  /\ ConnectionError(k)
  /\ UNCHANGED << jobProgresses, sseBuffer, CONTENT_ITEMS >>
  /\ UNCHANGED backState

\* The setTimeout callback of a workflow without backend
MockTimeout(k) ==
  /\ k \in DOMAIN net.conn
  /\ Conn(k).phase = "timeout"
  /\ JOBS' = WithStatus(JOBS, Conn(k).job, "completed")
  /\ net' = [ net EXCEPT !.conn[k].phase = "end" ]
  /\ UNCHANGED << jobProgresses, activeSSEJobs, sseBuffer, CONTENT_ITEMS >>
  /\ UNCHANGED backState

\* The setInterval callback: every running job without active stream gains
\* a random amount, and those that reach 100 (`full`) are completed.  A job
\* gains at most 3 per callback; the callbacks that leave every job below
\* 100 change nothing the model keeps, so a step stands for the callback in
\* which `full` is reached, or for one that leaves all below 100.
ProgressTick ==
  /\ \E k \in 1..Len(JOBS) :
       JOBS[k].status = "running" /\ JOBS[k].id \notin activeSSEJobs
  /\ \E full \in SUBSET { JOBS[k].id : k \in 1..Len(JOBS) } :
       /\ \A k \in 1..Len(JOBS) :
            JOBS[k].id \in full
              => JOBS[k].status = "running" /\ JOBS[k].id \notin activeSSEJobs
       /\ \A k \in 1..Len(JOBS) :
            /\ JOBS[k].status = "running"
            /\ JOBS[k].id \notin activeSSEJobs
            /\ jobProgresses[JOBS[k].id] = 100
            => JOBS[k].id \in full
       /\ jobProgresses' =
            [ id \in DOMAIN jobProgresses |->
                IF id \in full THEN 100 ELSE jobProgresses[id] ]
       /\ JOBS' =
            [ k \in 1..Len(JOBS) |->
                IF JOBS[k].id \in full
                THEN [ JOBS[k] EXCEPT !.status = "completed" ]
                ELSE JOBS[k] ]
  /\ UNCHANGED << activeSSEJobs, sseBuffer, CONTENT_ITEMS, net >>
  /\ UNCHANGED backState

\* showView('content'): syncContentLibrary up to its await fetch
SyncContentLibrary ==
  /\ net.views > 0
  /\ net' = [ net EXCEPT !.views = @ - 1, !.syncs = @ + 1 ]
  /\ UNCHANGED << JOBS, jobProgresses, activeSSEJobs, sseBuffer, CONTENT_ITEMS >>
  /\ UNCHANGED backState

\* syncContentLibrary after its awaits: the items not yet known are pushed
SyncSettles ==
  /\ net.syncs > 0
  /\ \E res \in ContentResponses :
       /\ CONTENT_ITEMS' =
            IF res.kind = "ok"
            THEN PushNewItems(CONTENT_ITEMS, res.items)
            ELSE CONTENT_ITEMS
       /\ net' = [ net EXCEPT !.syncs = @ - 1, !.response = res ]
  /\ UNCHANGED << JOBS, jobProgresses, activeSSEJobs, sseBuffer >>
  /\ UNCHANGED backState

\* What the page does about its jobs, and with the content library.
StreamNext ==
  \/ LaunchWorkflow
  \/ \E k \in 1..MaxLaunches : FetchSettles(k)
  \/ \E k \in 1..MaxLaunches : ReadChunk(k)
  \/ \E k \in 1..MaxLaunches : StreamEnds(k)
  \/ \E k \in 1..MaxLaunches : ReadFails(k)
  \/ \E k \in 1..MaxLaunches : MockTimeout(k)
  \/ ProgressTick

PageNext ==
  \/ StreamNext
  \/ SyncContentLibrary
  \/ SyncSettles

\* The page with one workflow launched: a single SSE stream.
OneStreamInit == PageInit /\ net.launches = 1 /\ net.served = StreamPool

OneStreamSpec == OneStreamInit /\ [][PageNext]_vars

\* The page with several workflows launched, one-token streams and the
\* content view left closed: streams side by side.
StreamsInit ==
  /\ PageInit
  /\ net.launches = MaxLaunches
  /\ net.views = 0
  /\ net.served = { Event(<<"T">>) }

StreamsSpec == StreamsInit /\ [][StreamNext]_vars

\* ------------------------------------------------- reading the node list
IsParagraph(n) == n.type = "Paragraph"
IsTable(n) == n.type = "Table"
IsHeading(n, level) == IsParagraph(n) /\ n.heading = level
IsPageBreak(n) == IsParagraph(n) /\ n.pageBreak
IsCentered(n) == IsParagraph(n) /\ n.alignment = "CENTER" /\ Len(n.children) = 1
IsCoverLine1(n) ==
  IsCentered(n) /\ n.children[1].size = 48 /\ n.children[1].color = ELECTRIC_BLUE
IsCoverLine2(n) ==
  IsCentered(n) /\ n.children[1].size = 76 /\ n.children[1].color = DARK_BLUE
IsSubtitle(n) ==
  IsCentered(n) /\ n.children[1].italics /\ n.children[1].color = MEDIUM_GRAY
IsBodyParagraph(n) ==
  /\ IsParagraph(n)
  /\ n.spacing = <<0, 80>>
  /\ n.alignment = ""
  /\ n.heading = ""
IsCalloutBox(n) ==
  /\ IsTable(n)
  /\ Len(n.rows) = 1
  /\ Len(n.rows[1].children) = 1
  /\ n.rows[1].children[1].margins = <<120, 120, 160, 160>>
IsBrandTable(n) ==
  /\ IsTable(n)
  /\ Len(n.rows) >= 1
  /\ Len(n.rows[1].children) >= 1
  /\ \A c \in 1..Len(n.rows[1].children) : n.rows[1].children[c].margins = << >>
EndsCover(n) == IsPageBreak(n) \/ IsHeading(n, "Heading2")

Nodes(P(_)) == { e \in 1..Len(elements) : P(elements[e]) }
AmpHeading(n) ==
  IsHeading(n, "Heading1") /\ Includes(n.children[1].text, AMP)

Min(S) == CHOOSE x \in S : \A y \in S : x <= y
Max(S) == CHOOSE x \in S : \A y \in S : x >= y

\* The lines scanned so far, by what the scanner's tests see in them.
Scanned(P(_)) == { k \in 1..i : P(lines[k]) }
IsH1Line(l) == StartsWith(l, <<"#", " ">>)
IsAmpH1Line(l) == IsH1Line(l) /\ Includes(Trim(Slice(l, 2)), AMP)
IsH2Line(l) == StartsWith(l, <<"#", "#", " ">>)
IsCoverEndLine(l) == Trim(l) = COVER_END
EndsCoverLine(l) == IsCoverEndLine(l) \/ IsH2Line(l)
IsQuoteLine(l) == StartsWith(Trim(l), QUOTE)
QuoteContent(l) == Trim(Slice(Trim(l), 2))
IsCalloutLine(l) == IsQuoteLine(l) /\ ~IsStatusLine(QuoteContent(l))

\* ------------------------------------------------------------------ claims

\* C1: the two-line cover title split happens at most once per document.
\* At most one pair of cover title paragraphs is ever emitted, it precedes
\* every Heading1 paragraph whose text holds ' & ', and every H1 line with
\* ' & ' scanned so far other than the split one is in the output as a
\* Heading1 paragraph.
C1_CoverSplitAtMostOnce ==
  LET split == Nodes(IsCoverLine1)
  IN  /\ Cardinality(split) <= 1
      /\ Cardinality(Nodes(IsCoverLine2)) = Cardinality(split)
      /\ (coverH1Done <=> split # {})
      /\ \A s \in split : \A h \in Nodes(AmpHeading) : s < h
      /\ Cardinality(Nodes(AmpHeading))
           = Cardinality(Scanned(IsAmpH1Line)) - Cardinality(split)

\* A second H1 with ' & ' was rendered as a heading while still in cover mode.
C1_Witness ==
  /\ inCover
  /\ coverH1Done
  /\ Nodes(AmpHeading) # {}

\* C2: at most one paragraph has the cover-subtitle styling; it follows the
\* cover title with no body paragraph, page break or H2 heading in between
\* (it is the first plain-text line after the title, inside cover mode), and
\* no body paragraph stands between the cover title and the first of
\* subtitle, page break and H2 heading.
C2_OneCoverSubtitle ==
  LET subs == Nodes(IsSubtitle)
      titles == Nodes(IsCoverLine2)
      between(a, b) == (a + 1)..(b - 1)
  IN  /\ Cardinality(subs) <= 1
      /\ (coverSubtitleDone <=> subs # {})
      /\ \A s \in subs :
           \E t \in titles :
             /\ t < s
             /\ \A m \in between(t, s) :
                  ~IsBodyParagraph(elements[m]) /\ ~EndsCover(elements[m])
      /\ \A b \in Nodes(IsBodyParagraph) : \A t \in titles :
           t < b =>
             \E m \in between(t, b) :
               IsSubtitle(elements[m]) \/ EndsCover(elements[m])

\* The subtitle was emitted and a later plain-text line, still in cover mode,
\* became an ordinary body paragraph.
C2_Witness ==
  /\ inCover
  /\ \E s \in Nodes(IsSubtitle) : \E b \in Nodes(IsBodyParagraph) : s < b

\* C3: cover mode holds exactly until the first [COVER_END] or H2 line has
\* been scanned and never after; no cover title paragraph follows a page
\* break or H2 heading, and every H1 line with ' & ' scanned after cover mode
\* ended is in the output as a Heading1 paragraph.
C3_CoverModeEndsForGood ==
  LET enders == Scanned(EndsCoverLine)
      endNodes == Nodes(EndsCover)
  IN  /\ (inCover <=> enders = {})
      /\ (enders = {} <=> endNodes = {})
      /\ enders # {} /\ endNodes # {} =>
           /\ \A c \in Nodes(IsCoverLine1) \cup Nodes(IsCoverLine2) :
                c < Min(endNodes)
           /\ Cardinality({ h \in Nodes(AmpHeading) : h > Min(endNodes) })
                = Cardinality({ k \in Scanned(IsAmpH1Line) : k > Min(enders) })

\* An H1 with ' & ' came after cover mode ended, with the title never split,
\* and was rendered as a heading.
C3_Witness ==
  /\ ~inCover
  /\ ~coverH1Done
  /\ Nodes(AmpHeading) # {}
  /\ pc = "done"

\* C4: h2Count is the number of H2 lines scanned so far (0 at the start, one
\* more per H2 line, touched by nothing else), which is also the number of
\* Heading2 paragraphs emitted; after the scan it is the number of H2 lines
\* of the document.
C4_H2CountCountsH2Lines ==
  /\ h2Count = Cardinality(Scanned(IsH2Line))
  /\ h2Count = Cardinality(Nodes(LAMBDA n : IsHeading(n, "Heading2")))
  /\ pc = "done" =>
       h2Count = Cardinality({ k \in 1..Len(lines) : IsH2Line(lines[k]) })

\* Two H2 lines and a line of another kind were scanned to the end.
C4_Witness ==
  /\ pc = "done"
  /\ h2Count = 2
  /\ Len(lines) = 3

C6_TableHeaderFollowsH2 ==
  \A e \in Nodes(IsBrandTable) :
    LET before == { m \in 1..(e - 1) : IsHeading(elements[m], "Heading2") }
        header == elements[e].rows[1].children
    IN  \A c \in 1..Len(header) :
          header[c].fill
            = IF before = {}
              THEN ELECTRIC_BLUE
              ELSE elements[Max(before)].children[1].color

\* A brand table under an odd-numbered H2: a Dark Blue header.
C6_Witness ==
  \E e \in Nodes(IsBrandTable) :
    /\ elements[e].rows[1].children[1].fill = DARK_BLUE
    /\ \E m \in 1..(e - 1) : IsHeading(elements[m], "Heading2")

\* C7: the scan terminates: the line index never passes the end of the
\* input, every iteration of the loop moves it forward by at least one line
\* (so there are at most Len(lines) iterations), and the function returns
\* with the index at the end of the input.
C7_EveryIterationAdvances ==
  /\ [](i <= Len(lines))
  /\ [](pc = "done" => i = Len(lines))
  /\ [][pc' = "scan" => i' >= i + 1]_vars

\* A callout run and a table run of two lines were each consumed in one
\* iteration, and the function returned.
C7_Witness ==
  /\ pc = "done"
  /\ i = Len(lines)
  /\ Len(lines) = 3
  /\ Nodes(IsCalloutBox) # {}
  /\ \E e \in Nodes(IsBrandTable) : Len(elements[e].rows) = 2

\* The number of paragraphs inside the callout boxes among the first e nodes.
RECURSIVE CalloutParagraphs(_)
CalloutParagraphs(e) ==
  IF e = 0
  THEN 0
  ELSE CalloutParagraphs(e - 1)
       + (IF IsCalloutBox(elements[e])
          THEN Len(elements[e].rows[1].children[1].children)
          ELSE 0)

\* C8: a status-prefixed blockquote line leaves nothing in the output: the
\* callout boxes hold one paragraph per blockquote line that is not a status
\* line and none for a status line, and while only status lines were scanned
\* among the blockquote lines there is no callout box and no callout spacer.
C8_StatusLinesLeaveNoTrace ==
  /\ CalloutParagraphs(Len(elements)) = Cardinality(Scanned(IsCalloutLine))
  /\ Scanned(IsCalloutLine) = {} =>
       /\ Nodes(IsCalloutBox) = {}
       /\ Nodes(LAMBDA n : n = Spacer(80, 0)) = {}

\* The blockquote run the scanner is about to take, when it starts with an
\* entirely bold line and holds no status line: the lines i+1 .. i'.
C9_BoldRunTaken ==
  /\ pc = "scan"
  /\ i < Len(lines)
  /\ i' > i
  /\ i' <= Len(lines)
  /\ \A k \in (i + 1)..i' : IsCalloutLine(lines[k])
  /\ IsEntirelyBold(QuoteContent(lines[i + 1]))
  /\ i' < Len(lines) => ~IsQuoteLine(lines[i' + 1])

C9_HeadlineRun(text) == TextRun(text, TRUE, FALSE, NEON_GREEN, 26, "Bebas Neue")

\* What the run emits: spacer, one box, spacer; the box holds the headline and
\* then one paragraph per further line, each satisfying BodyOK(line, paragraph).
C9_Emits(BodyOK(_, _)) ==
  LET n == i' - i
      content == [ k \in 1..n |-> QuoteContent(lines[i + k]) ]
      added == SubSeq(elements', Len(elements) + 1, Len(elements'))
  IN  /\ SubSeq(elements', 1, Len(elements)) = elements
      /\ Len(added) = 3
      /\ added[1] = Spacer(80, 0)
      /\ added[3] = Spacer(0, 120)
      /\ IsCalloutBox(added[2])
      /\ LET paras == added[2].rows[1].children[1].children
         IN  /\ Len(paras) = n
             /\ paras[1].children = << C9_HeadlineRun(SliceMid(content[1], 2, 2)) >>
             /\ \A k \in 2..n : BodyOK(content[k], paras[k])

\* A bulleted body line: the glyph run in the accent color first, an indent,
\* and the text without its '- ' prefix.
C9_BulletOK(c, p) ==
  StartsWith(c, <<"-", " ">>) =>
    /\ Len(p.children) >= 1
    /\ p.children[1].text = <<"U+2022", " ">>
    /\ p.children[1].color = NEON_GREEN
    /\ p.indentLeft > 0
    /\ \A r \in 2..Len(p.children) : p.children[r].color \in {WHITE, NEON_GREEN}
    /\ Flatten([ r \in 1..(Len(p.children) - 1) |->
                   IF p.children[r + 1].bold
                   THEN <<"*", "*">> \o p.children[r + 1].text \o <<"*", "*">>
                   ELSE p.children[r + 1].text ])
         = Slice(c, 2)

\* Any other body line, as the claim has it: one plain white run.
C9_PlainWhite(c, p) ==
  ~StartsWith(c, <<"-", " ">>) =>
    /\ p.indentLeft = 0
    /\ p.children = << TextRun(c, FALSE, FALSE, WHITE, 20, "Calibri") >>

\* Any other body line, as the code has it: no bullet, no indent, the text
\* outside **...** in white and each **...** span bold in the accent color.
C9_WhiteWithAccentBold(c, p) ==
  ~StartsWith(c, <<"-", " ">>) =>
    /\ p.indentLeft = 0
    /\ \A r \in 1..Len(p.children) :
         \/ ~p.children[r].bold /\ p.children[r].color = WHITE
         \/ p.children[r].bold /\ p.children[r].color = NEON_GREEN
    /\ Flatten([ r \in 1..Len(p.children) |->
                   IF p.children[r].bold
                   THEN <<"*", "*">> \o p.children[r].text \o <<"*", "*">>
                   ELSE p.children[r].text ])
         = c

C9_OriginalBody(c, p) == C9_BulletOK(c, p) /\ C9_PlainWhite(c, p)
C9_AmendedBody(c, p) == C9_BulletOK(c, p) /\ C9_WhiteWithAccentBold(c, p)

\* C9 as claimed: a run of n non-status blockquote lines whose first line is
\* entirely bold yields one callout box with the headline and n-1 body
\* paragraphs in order, a '- ' line as a bulleted indented line and any other
\* line as a plain white line.
C9_CalloutAsClaimed ==
  [][C9_BoldRunTaken => C9_Emits(C9_OriginalBody)]_vars

\* C9 as amended: the same, with any other line rendered without bullet or
\* indent, its **...** spans bold in the accent color and the rest white.
C9_CalloutWithInlineBold ==
  [][C9_BoldRunTaken => C9_Emits(C9_AmendedBody)]_vars

\* A box with a headline, a bulleted line and a line with an inline bold span.
C9_Witness ==
  \E e \in Nodes(IsCalloutBox) :
    LET paras == elements[e].rows[1].children[1].children
    IN  /\ Len(paras) = 3
        /\ paras[1].children[1].size = 26
        /\ \E k \in 2..3 : paras[k].indentLeft = 180
        /\ \E k \in 2..3 :
             /\ paras[k].indentLeft = 0
             /\ \E r \in 1..Len(paras[k].children) : paras[k].children[r].bold

\* C10: every table of the output has at least one row.
C10_EveryTableHasARow ==
  \A e \in Nodes(IsTable) : Len(elements[e].rows) >= 1

\* C11: in every table the renderer emits, every row has exactly as many
\* cells as the table has column widths, so all rows of one table have the
\* same cell count, whether a data row has fewer or more cells than the header.
C11_RowsMatchColumnWidths ==
  \A e \in Nodes(IsTable) :
    \A r \in 1..Len(elements[e].rows) :
      Len(elements[e].rows[r].children) = Len(elements[e].columnWidths)

RECURSIVE SumSeq(_)
SumSeq(w) == IF w = << >> THEN 0 ELSE Head(w) + SumSeq(Tail(w))

\* C12: a brand table with N >= 1 header cells has N column widths, the first
\* N-1 equal to floor(9360 / N) and the last the remainder, 9360 in all; the
\* info table has the widths 2500 and 6860 and the callout box the one width
\* 9360, so each sums to 9360 too.
C12_ColumnWidthsSumToTotal ==
  /\ Returned("buildBrandTable") =>
       LET n == Len(call.args[1])
           w == call.ret.columnWidths
       IN  /\ Len(w) = n
           /\ \A k \in 1..(n - 1) : w[k] * n <= 9360 /\ 9360 < (w[k] + 1) * n
           /\ SumSeq(w) = 9360
  /\ Returned("buildInfoTable") =>
       /\ call.ret.columnWidths = <<2500, 6860>>
       /\ SumSeq(call.ret.columnWidths) = 9360
  /\ (Returned("createCTABox") /\ call.ret.type = "Table") =>
       call.ret.columnWidths = <<9360>>

\* A brand table whose column count does not divide 9360 was built: the last
\* column is wider than the others.
C12_Witness ==
  /\ Returned("buildBrandTable")
  /\ LET w == call.ret.columnWidths
     IN  Len(w) >= 2 /\ w[Len(w)] > w[1] /\ Len(call.ret.rows) >= 2

\* The text a table cell shows: the texts of the runs of its one paragraph.
CellText(cell) ==
  LET runs == cell.children[1].children
  IN  Flatten([ k \in 1..Len(runs) |-> runs[k].text ])

\* A data cell styled as createDataRow styles it, in column k of table t.
NormalDataCell(t, row, k) ==
  /\ row.children[k].fill = row.children[1].fill
  /\ row.children[k].width = t.columnWidths[k]
  /\ Len(row.children[k].children) = 1
  /\ row.children[k].children[1].spacing = <<60, 60>>

\* C13: in a brand table, a data row with fewer cells than the header is
\* rendered with its own cells, unchanged and in order, followed by empty,
\* normally styled cells up to the header count; no row is lost, and a row
\* with at least as many cells as the header shows exactly its own cells.
C13_ShortRowsArePadded ==
  Returned("buildBrandTable") =>
    LET n == Len(call.args[1])
        rows == call.args[2]
        t == call.ret
    IN  /\ t.type = "Table"
        /\ Len(t.rows) = Len(rows) + 1
        /\ \A r \in 1..Len(rows) :
             LET own == rows[r]
                 out == t.rows[r + 1]
             IN  /\ Len(own) < n =>
                      /\ Len(out.children) = n
                      /\ \A k \in 1..n : NormalDataCell(t, out, k)
                      /\ \A k \in (Len(own) + 1)..n :
                           out.children[k].children[1].children = << >>
                 /\ Len(own) >= n => Len(out.children) = Len(own)
                 /\ \A k \in 1..Len(own) : CellText(out.children[k]) = own[k]

\* Three header cells, a data row of two cells and a data row of three.
C13_Witness ==
  /\ Returned("buildBrandTable")
  /\ Len(call.args[1]) = 3
  /\ Len(call.args[2]) = 2
  /\ Len(call.args[2][1]) = 2
  /\ Len(call.args[2][2]) = 3
  /\ Len(call.ret.rows[2].children) = 3

\* C14: parseMarkdownTable reports isInfoTable = true exactly when the
\* headers it returns are two cells that are both the empty string; for every
\* other header list (one empty cell, three empty cells, one empty cell of
\* two, real titles) it reports false.
C14_InfoTableIffTwoEmptyHeaders ==
  Returned("parseMarkdownTable") =>
    (call.ret.isInfoTable <=> call.ret.headers = << << >>, << >> >>)

\* A block was parsed into two empty header cells and at least one data row.
C14_Witness ==
  /\ Returned("parseMarkdownTable")
  /\ call.ret.isInfoTable
  /\ Len(call.ret.headers) = 2
  /\ Len(call.ret.rows) >= 1

\* The header line of two empty cells, a dashed separator row, a data row.
EmptyHeader == <<"|", " ", "|", " ", "|">>
IsEmptyHeaderLine(l) == Trim(l) = EmptyHeader
IsPipeLine(l) == StartsWith(Trim(l), PIPE)
IsDashedSeparatorLine(l) == IsSeparatorRow(Trim(l)) /\ Includes(l, <<"-">>)
IsDataLine(l) == IsPipeLine(l) /\ ~IsSeparatorRow(Trim(l))

\* The table buildInfoTable returns, and a body paragraph showing `text`.
IsInfoTableNode(n) == IsTable(n) /\ n.columnWidths = <<2500, 6860>>
ShowsAsBody(n, text) ==
  /\ IsBodyParagraph(n)
  /\ Flatten([ k \in 1..Len(n.children) |-> n.children[k].text ]) = text

\* C15: a pipe-delimited block that starts with the header line `| | |`,
\* followed by a separator row and a data row, is rendered, once scanned, as
\* an info table: the output holds a table built by the info-row builder, no
\* brand table, and no body paragraph showing the header line.
C15_EmptyHeaderBlockIsInfoTable ==
  \A k \in 1..(i - 2) :
    ( /\ IsEmptyHeaderLine(lines[k])
      /\ (k = 1 \/ ~IsPipeLine(lines[k - 1]))
      /\ IsDashedSeparatorLine(lines[k + 1])
      /\ IsDataLine(lines[k + 2]) )
    => /\ Nodes(IsInfoTableNode) # {}
       /\ Nodes(IsBrandTable) = {}
       /\ \A e \in 1..Len(elements) : ~ShowsAsBody(elements[e], EmptyHeader)

\* The text and the opts of the parseInline call, and the run that shows
\* `text` in the caller's base style.
InlineText == call.args[1]
InlineOpts == call.args[2]
HasStar(text) == \E k \in 1..Len(text) : text[k] = "*"
BaseRun(text, o) == TextRun(text, o.bold, o.italic, o.color, o.size, o.font)

\* C16 as stated: for every text without '*', parseInline returns exactly one
\* run, equal to the input in the caller's base style.
C16_StarFreeTextIsOneRun ==
  (Returned("parseInline") /\ ~HasStar(InlineText)) =>
    call.ret = << BaseRun(InlineText, InlineOpts) >>

\* C16, amended: for every non-empty text without '*', parseInline returns
\* exactly one run, equal to the input in the caller's base style; for the
\* empty text it returns no run.
C16_NonEmptyStarFreeTextIsOneRun ==
  (Returned("parseInline") /\ ~HasStar(InlineText)) =>
    IF InlineText = << >>
    THEN call.ret = << >>
    ELSE call.ret = << BaseRun(InlineText, InlineOpts) >>

\* A text of several characters without '*' came back as one run, under
\* base flags that are switched on.
C16_Witness ==
  /\ Returned("parseInline")
  /\ ~HasStar(InlineText)
  /\ Len(InlineText) >= 2
  /\ InlineOpts.bold
  /\ InlineOpts.italic
  /\ Len(call.ret) = 1

\* The text holds one delimiter pair with empty content, `**` or `****`, and
\* no other '*': the pair stands alone or between star-free text.
IsEmptyPairText(text) ==
  \E n \in {2, 4} : \E p \in 0..(Len(text) - n) :
    \A k \in 1..Len(text) : (text[k] = "*") <=> (p < k /\ k <= p + n)

\* C17: a delimiter pair with empty content, alone or embedded in other
\* text, is emitted as literal text: the runs show the input unchanged, and
\* every run has the caller's base bold and italic flags.
C17_EmptyDelimitersAreLiteral ==
  (Returned("parseInline") /\ IsEmptyPairText(InlineText)) =>
    /\ Flatten([ k \in 1..Len(call.ret) |-> call.ret[k].text ]) = InlineText
    /\ \A k \in 1..Len(call.ret) :
         /\ call.ret[k].bold = InlineOpts.bold
         /\ call.ret[k].italics = InlineOpts.italic

\* C18: every run parseInline returns has non-empty text and the caller's
\* color, size and font; its flags differ from the caller's base flags in at
\* most one place: a bold span switches bold on and keeps the base italic, an
\* italic span switches italic on and keeps the base bold.
C18_RunsKeepBaseStyle ==
  Returned("parseInline") =>
    \A k \in 1..Len(call.ret) :
      LET r == call.ret[k]
          o == InlineOpts
      IN  /\ r.text # << >>
          /\ r.color = o.color
          /\ r.size = o.size
          /\ r.font = o.font
          /\ r.bold = o.bold \/ (r.bold /\ r.italics = o.italic)
          /\ r.italics = o.italic \/ (r.italics /\ r.bold = o.bold)

\* Under a base style that is italic and not bold, a bold span came back
\* bold and italic, next to another run.
C18_Witness ==
  /\ Returned("parseInline")
  /\ Len(call.ret) >= 2
  /\ InlineOpts.italic
  /\ ~InlineOpts.bold
  /\ \E k \in 1..Len(call.ret) : call.ret[k].bold /\ call.ret[k].italics

\* The line carries one of the block markers: cover-end, blockquote, table,
\* heading, list, rule.
HasBlockMarker(l) ==
  \/ IsCoverEndLine(l)
  \/ IsQuoteLine(l)
  \/ IsPipeLine(l)
  \/ IsH1Line(l)
  \/ IsH2Line(l)
  \/ StartsWith(l, <<"#", "#", "#", " ">>)
  \/ StartsWith(l, <<"-", " ">>)
  \/ StartsWith(l, <<"*", " ">>)
  \/ NumMatch(l) > 0
  \/ Trim(l) = <<"-", "-", "-">>

IsBlankLine(l) == Trim(l) = << >>
Unstarred(text) == SelectSeq(text, LAMBDA c : c # "*")
ShownText(n) == Flatten([ k \in 1..Len(n.children) |-> n.children[k].text ])

\* C19: when no line of the input carries a block marker, the renderer emits
\* exactly one node per scanned line, in order: for a blank line an empty
\* spacer paragraph, for any other line a body paragraph (not centered, no
\* heading, no list marker) that shows the line's text without its emphasis
\* markers.
C19_PlainLinesOneNodeEach ==
  (\A k \in 1..Len(lines) : ~HasBlockMarker(lines[k])) =>
    /\ Len(elements) = i
    /\ \A k \in 1..i :
         IF IsBlankLine(lines[k])
         THEN elements[k] = Spacer(0, 60)
         ELSE /\ IsBodyParagraph(elements[k])
              /\ ~elements[k].bullet
              /\ elements[k].numbering = ""
              /\ elements[k].children # << >>
              /\ Unstarred(ShownText(elements[k])) = Unstarred(Trim(lines[k]))

\* A document of three marker-free lines, one blank and two with emphasis,
\* was rendered to the end.
C19_Witness ==
  /\ pc = "done"
  /\ Len(lines) = 3
  /\ \A k \in 1..Len(lines) : ~HasBlockMarker(lines[k])
  /\ \E k \in 1..Len(lines) : IsBlankLine(lines[k]) /\ lines[k] # << >>
  /\ \E k \in 1..Len(lines) : HasStar(lines[k])
  /\ Len(elements) = 3

IsHyphenLine(l) ==
  LET t == Trim(l)
  IN  Len(t) >= 3 /\ \A k \in 1..Len(t) : t[k] = "-"
IsRuleNode(n) ==
  /\ IsParagraph(n)
  /\ n.borderBottom = ELECTRIC_BLUE
  /\ n.children = << >>

\* C21: every line that consists solely of three or more hyphens is rendered
\* as one empty paragraph with a bottom border in Electric Blue and never as
\* a body paragraph: the output holds one rule per such line scanned, and no
\* body paragraph shows such a line.
C21_HyphenLinesAreRules ==
  /\ Cardinality(Nodes(IsRuleNode)) = Cardinality(Scanned(IsHyphenLine))
  /\ \A k \in Scanned(IsHyphenLine) :
       \A e \in 1..Len(elements) : ~ShowsAsBody(elements[e], Trim(lines[k]))

\* Where the first ' & ' of a title starts, and the title of an H1 line.
FirstAmp(t) == Min({ k \in 1..(Len(t) - 2) : SubSeq(t, k, k + 2) = AMP })
H1TitleOf(l) == Trim(Slice(l, 2))

\* C22: when the cover title split applies, the title is split at its first
\* ' & ' into exactly two parts: the first cover line shows the text before
\* the first delimiter, and the second cover line, the node right after it,
\* shows '& ' followed by all the text after the first delimiter, also when
\* the title holds more than one ' & '.
C22_SplitAtFirstAmpKeepsRemainder ==
  \A e \in Nodes(IsCoverLine1) :
    LET title == H1TitleOf(lines[Min(Scanned(IsAmpH1Line))])
        at == FirstAmp(title)
    IN  /\ elements[e].children[1].text = SubSeq(title, 1, at - 1)
        /\ e < Len(elements)
        /\ IsCoverLine2(elements[e + 1])
        /\ elements[e + 1].children[1].text =
             <<"&", " ">> \o SubSeq(title, at + 3, Len(title))

ShownBodyLines(bodyLines) ==
  SelectSeq(bodyLines, LAMBDA l : Trim(l) # << >>)
BodyLineReading(l) ==
  IF StartsWith(l, <<"-", " ">>)
  THEN <<"U+2022", " ">> \o Unstarred(Slice(l, 2))
  ELSE Unstarred(l)

\* C24: createCTABox returns null exactly when the headline is empty and
\* every body line is blank after trimming; otherwise it returns a table of
\* one row and one cell whose paragraphs are the headline, when there is
\* one, followed by one paragraph per non-blank body line in order, the
\* blank body lines being skipped.
C24_NullIffNothingToShow ==
  Returned("createCTABox") =>
    LET headline == call.args[1]
        bodyLines == call.args[2]
        shown == ShownBodyLines(bodyLines)
        h == IF headline # << >> THEN 1 ELSE 0
    IN  /\ (call.ret = Null) <=> (h = 0 /\ Len(shown) = 0)
        /\ (call.ret # Null) =>
             /\ IsTable(call.ret)
             /\ Len(call.ret.rows) = 1
             /\ Len(call.ret.rows[1].children) = 1
             /\ LET paras == call.ret.rows[1].children[1].children
                IN  /\ Len(paras) = h + Len(shown)
                    /\ (h = 1) =>
                         /\ Len(paras[1].children) = 1
                         /\ paras[1].children[1].text = headline
                         /\ paras[1].children[1].size = 26
                    /\ \A k \in 1..Len(shown) :
                         /\ paras[h + k].spacing = <<40, 40>>
                         /\ ShownText(paras[h + k]) = BodyLineReading(shown[k])

\* A box was built from a headline and two body lines, one holding only
\* white space and one with text.
C24_Witness ==
  /\ Returned("createCTABox")
  /\ call.args[1] # << >>
  /\ \E b, c \in 1..Len(call.args[2]) :
       /\ call.args[2][b] = <<" ">>
       /\ Trim(call.args[2][c]) # << >>
  /\ call.ret # Null
  /\ Len(call.ret.rows[1].children[1].children) = 2

\* The steps of the generation that threw, and how often a step was tried.
ThrownSteps(ret) ==
  { k \in 1..Len(ret.steps) : ret.steps[k][2] = "throw" }
TimesTried(ret, step) ==
  Cardinality({ k \in 1..Len(ret.steps) : ret.steps[k][1] = step })
GenerationSteps == { "buildDocument", "toBuffer", "writeFileSync" }

\* C25: in main, when buildDocument, Packer.toBuffer or the file write
\* throws, the failure is reported once, the process ends with exit code 1
\* and nothing is printed on standard output; the line OK:<path> is printed
\* only after the buffer was written; each of the three steps is tried at
\* most once and none is tried after a throw.
C25_GenerationFailureIsTerminal ==
  (call.fn = "main") =>
    LET ret == call.ret
    IN  /\ \A k \in ThrownSteps(ret) :
             /\ k = Len(ret.steps)
             /\ pc = "exited"
             /\ ret.exitCode = 1
             /\ ret.stderr = << "DOCX generation failed" >>
             /\ ret.stdout = << >>
        /\ (ret.stdout # << >>) =>
             /\ ret.stdout = << << "OK:", call.args.argv[2] >> >>
             /\ ret.written
             /\ ret.steps[Len(ret.steps)] = << "writeFileSync", "ok" >>
        /\ \A step \in GenerationSteps : TimesTried(ret, step) <= 1

\* The document was built and packed and the write threw: the process has
\* ended.
C25_Witness ==
  /\ InMain("exited")
  /\ call.ret.steps = << << "buildDocument", "ok" >>, << "toBuffer", "ok" >>,
                         << "writeFileSync", "throw" >> >>
  /\ Len(elements) > 0

\* The step consumes the longest run of lines of kind P that starts at the
\* line under the index.
ConsumesMaximalRun(P(_)) ==
  /\ i' > i
  /\ i' <= Len(lines)
  /\ \A k \in (i + 1)..i' : P(lines[k])
  /\ (i' = Len(lines) \/ ~P(lines[i' + 1]))

\* C26: every step of the scan advances the line index by exactly one,
\* except a step that starts a callout (a blockquote line that is no status
\* line) or a table (a pipe line that is no separator row): such a step
\* advances the index over the maximal contiguous run of lines that, once
\* trimmed, start with '> ' respectively '|', so that the line processed
\* next is not of the run.
C26_Advance ==
  (pc = "scan" /\ i < Len(lines)) =>
    IF IsCalloutLine(lines[i + 1]) THEN ConsumesMaximalRun(IsQuoteLine)
    ELSE IF IsDataLine(lines[i + 1]) THEN ConsumesMaximalRun(IsPipeLine)
    ELSE i' = i + 1
C26_BranchesAdvancePastTheirRun == [][C26_Advance]_vars

\* A table run of a data line and a separator row was consumed in one step
\* and the scan is at the line after it, which is no pipe line.
C26_Witness ==
  /\ pc = "scan"
  /\ i = 2
  /\ Len(lines) = 3
  /\ IsDataLine(lines[1])
  /\ IsSeparatorRow(Trim(lines[2]))
  /\ ~IsPipeLine(lines[3])

\* C27: the output holds exactly one page-break paragraph per scanned line
\* whose trimmed text is [COVER_END], whether or not cover mode had ended
\* before the line, and no other line adds one: at every point of the scan
\* the page breaks emitted are as many as the [COVER_END] lines passed.
C27_PageBreakPerCoverEndLine ==
  Cardinality(Nodes(IsPageBreak)) = Cardinality(Scanned(IsCoverEndLine))

\* A [COVER_END] line was scanned after an H2 heading had ended cover mode,
\* and another line after it.
C27_Witness ==
  /\ i = 3
  /\ IsH2Line(lines[1])
  /\ IsCoverEndLine(lines[2])
  /\ ~IsCoverEndLine(lines[3])
  /\ Cardinality(Nodes(IsPageBreak)) = 1

\* The cells a row is written with: the pieces of the trimmed line between
\* pipes, without the empty piece an outer pipe leaves at either end, each
\* trimmed.
WrittenCells(l) ==
  LET pieces == Split(Trim(l), <<"|">>)
      from == IF pieces[1] = << >> THEN 2 ELSE 1
      to == IF pieces[Len(pieces)] = << >> THEN Len(pieces) - 1 ELSE Len(pieces)
  IN  [ k \in 1..(to - from + 1) |-> Trim(pieces[from + k - 1]) ]

\* The rows of a block that remain once the lines without a leading pipe and
\* the separator rows are left out.
RemainingRows(tableLines) == SelectSeq(tableLines, IsDataLine)

\* C28: parseMarkdownTable discards from a row's pieces only the empty
\* strings the outer pipes produce: the cells written in every remaining
\* row, when there are any, come back as the headers or as one of the data
\* rows, also for a row without a closing pipe, whose last cell is kept.
C28_RowsKeepTheirWrittenCells ==
  Returned("parseMarkdownTable") =>
    \A k \in 1..Len(RemainingRows(call.args[1])) :
      LET cells == WrittenCells(RemainingRows(call.args[1])[k])
      IN  \/ cells = << >>
          \/ cells = call.ret.headers
          \/ \E r \in 1..Len(call.ret.rows) : cells = call.ret.rows[r]

\* C29: parseMarkdownTable ignores the lines that do not start with a pipe
\* and the separator rows, takes the cells of the first remaining row as
\* the headers and returns every later remaining row as one data row, in
\* input order: there is one data row less than there are remaining rows.
C29_FirstRowHeadersRestData ==
  Returned("parseMarkdownTable") =>
    LET remaining == RemainingRows(call.args[1])
    IN  IF remaining = << >>
        THEN call.ret.headers = << >> /\ call.ret.rows = << >>
        ELSE /\ call.ret.headers = TableCells(Trim(remaining[1]))
             /\ Len(call.ret.rows) = Len(remaining) - 1
             /\ \A k \in 1..Len(call.ret.rows) :
                  call.ret.rows[k] = TableCells(Trim(remaining[k + 1]))

\* A paragraph set as a callout headline, and one set as a callout body line.
IsHeadlineParagraph(p) ==
  /\ Len(p.children) = 1
  /\ p.children[1].size = 26
  /\ p.children[1].font = "Bebas Neue"
IsCalloutBodyParagraph(p) ==
  /\ p.spacing = <<40, 40>>
  /\ \A r \in 1..Len(p.children) :
       p.children[r].size = 20 /\ p.children[r].font = "Calibri"

\* C30: when the scan takes a blockquote run, the box gets a headline only
\* from the first line of the run and only when that whole line is one
\* **...** span: then the first paragraph is the headline with the text
\* between the markers.  An entirely bold line at a later position, and a
\* first line with text outside the markers, give a body paragraph showing
\* the line, and no paragraph after the first is a headline.
C30_Step ==
  (pc = "scan" /\ i < Len(lines) /\ IsCalloutLine(lines[i + 1])) =>
    LET n == i' - i
        content == [ k \in 1..n |-> QuoteContent(lines[i + k]) ]
        box == elements'[Len(elements) + 2]
        paras == box.rows[1].children[1].children
    IN  /\ Len(elements') = Len(elements) + 3
        /\ IsCalloutBox(box)
        /\ Len(paras) = n
        /\ IsHeadlineParagraph(paras[1]) <=> IsEntirelyBold(content[1])
        /\ IsEntirelyBold(content[1]) =>
             paras[1].children[1].text = SliceMid(content[1], 2, 2)
        /\ ~IsEntirelyBold(content[1]) =>
             /\ IsCalloutBodyParagraph(paras[1])
             /\ ShownText(paras[1]) = BodyLineReading(content[1])
        /\ \A k \in 2..n :
             /\ ~IsHeadlineParagraph(paras[k])
             /\ IsCalloutBodyParagraph(paras[k])
             /\ ShownText(paras[k]) = BodyLineReading(content[k])
C30_HeadlineOnlyFromBoldFirstLine == [][C30_Step]_vars

\* A run of two blockquote lines was taken whose first line has text outside
\* a bold span and whose second line is entirely bold: the box holds two
\* body paragraphs and no headline.
C30_Witness ==
  /\ i = 2
  /\ IsCalloutLine(lines[1])
  /\ Includes(QuoteContent(lines[1]), <<"*", "*">>)
  /\ ~IsEntirelyBold(QuoteContent(lines[1]))
  /\ IsCalloutLine(lines[2])
  /\ IsEntirelyBold(QuoteContent(lines[2]))
  /\ Len(elements) = 3
  /\ IsCalloutBox(elements[2])
  /\ \A k \in 1..2 :
       ~IsHeadlineParagraph(elements[2].rows[1].children[1].children[k])

\* Line k starts a blockquote run: it is a blockquote line that is no status
\* line, and the blockquote lines right before it, if any, are status lines
\* (each was skipped on its own).
StartsCalloutRun(k) ==
  /\ IsCalloutLine(lines[k])
  /\ \A j \in 1..(k - 1) :
       (\A m \in j..(k - 1) : IsQuoteLine(lines[m])) => ~IsCalloutLine(lines[j])

\* C31: every blockquote run the scan has taken gave exactly three nodes in
\* order, a spacer, one callout table and a spacer: there is one callout box
\* per run started, each box stands between the two spacers, and the
\* opening spacer never stands without a box after it.
C31_RunGivesSpacerBoxSpacer ==
  /\ Cardinality(Nodes(IsCalloutBox))
       = Cardinality({ k \in 1..i : StartsCalloutRun(k) })
  /\ \A e \in Nodes(IsCalloutBox) :
       /\ e > 1
       /\ e < Len(elements)
       /\ elements[e - 1] = Spacer(80, 0)
       /\ elements[e + 1] = Spacer(0, 120)
  /\ \A e \in 1..Len(elements) :
       elements[e] = Spacer(80, 0) =>
         e < Len(elements) /\ IsCalloutBox(elements[e + 1])

\* A run of one blockquote line without headline was taken, after a status
\* line that was skipped: the three nodes are all there is.
C31_Witness ==
  /\ i = 2
  /\ IsQuoteLine(lines[1])
  /\ ~IsCalloutLine(lines[1])
  /\ StartsCalloutRun(2)
  /\ ~IsEntirelyBold(QuoteContent(lines[2]))
  /\ Len(elements) = 3
  /\ IsCalloutBox(elements[2])

\* Line k starts a table run: it is a pipe line that is no separator row,
\* and the pipe lines right before it, if any, are separator rows (each was
\* taken on its own by a later branch).
StartsTableRun(k) ==
  /\ IsDataLine(lines[k])
  /\ \A j \in 1..(k - 1) :
       (\A m \in j..(k - 1) : IsPipeLine(lines[m])) => ~IsDataLine(lines[j])
IsDataTable(n) == IsTable(n) /\ ~IsCalloutBox(n)

\* C32: every table run the scan has taken gave exactly one table followed
\* by one spacer: there is one table per run started, each with the spacer
\* right after it, and no run was dropped without a node.
C32_RunGivesTableAndSpacer ==
  /\ Cardinality(Nodes(IsDataTable))
       = Cardinality({ k \in 1..i : StartsTableRun(k) })
  /\ \A e \in Nodes(IsDataTable) :
       e < Len(elements) /\ elements[e + 1] = Spacer(0, 120)

\* C33: in a brand table the header row comes first, filled with the header
\* color and showing the headers, and the data rows follow in input order,
\* each showing the cells of its input row; the data row at index r
\* (counted from 0, the header left out) is filled white when r is even and
\* light gray when r is odd.
C33_HeaderFirstRowsAlternate ==
  Returned("buildBrandTable") =>
    LET headers == call.args[1]
        rows == call.args[2]
        t == call.ret
    IN  /\ IsTable(t)
        /\ Len(t.rows) = Len(rows) + 1
        /\ Len(t.rows[1].children) = Len(headers)
        /\ \A k \in 1..Len(headers) :
             /\ t.rows[1].children[k].fill = call.args[3]
             /\ CellText(t.rows[1].children[k]) = stripMd(headers[k])
        /\ \A r \in 0..(Len(rows) - 1) :
             LET out == t.rows[r + 2].children
             IN  /\ Len(out) >= Len(rows[r + 1])
                 /\ \A k \in 1..Len(out) :
                      /\ out[k].fill = (IF r % 2 = 0 THEN WHITE ELSE LIGHT_GRAY)
                      /\ CellText(out[k]) =
                           (IF k <= Len(rows[r + 1]) THEN rows[r + 1][k] ELSE << >>)

\* A brand table was built from two data rows that differ: the first is
\* white, the second light gray.
C33_Witness ==
  /\ Returned("buildBrandTable")
  /\ Len(call.args[2]) = 2
  /\ call.args[2][1] # call.args[2][2]
  /\ Len(call.args[2][1]) > 0
  /\ Len(call.args[2][2]) > 0
  /\ call.ret.rows[2].children[1].fill = WHITE
  /\ call.ret.rows[3].children[1].fill = LIGHT_GRAY

\* ---------------------------------------------------------------- C34
\* C34: whatever done events the streams carry and whatever GET /api/content
\* answers, in any order, no two entries of CONTENT_ITEMS have the same
\* job_id.
C34_LibraryJobIdsAreUnique ==
  \A a \in 1..Len(CONTENT_ITEMS) : \A b \in 1..Len(CONTENT_ITEMS) :
    CONTENT_ITEMS[a].job_id = CONTENT_ITEMS[b].job_id => a = b

\* A stream has carried two done events of one job and a response that
\* names a job twice has been taken in; the library holds two entries.
C34_Witness ==
  /\ Len(CONTENT_ITEMS) = 2
  /\ net.response.kind = "ok"
  /\ Len(net.response.items) = 2
  /\ net.response.items[1] = net.response.items[2]
  /\ \E k \in 1..Len(net.conn) :
       Conn(k).handled = << DATA \o <<"U">>, DATA \o <<"U">> >>

\* ---------------------------------------------------------------- C35
\* The complete lines of a text: what precedes each of its newlines.
CompleteLines(text) ==
  LET pieces == Split(text, << "\n" >>)
  IN  SubSeq(pieces, 1, Len(pieces) - 1)

\* What follows the last newline of a text.
Unfinished(text) ==
  LET pieces == Split(text, << "\n" >>)
  IN  pieces[Len(pieces)]

IsEventLine(line) == StartsWith(line, DATA)

\* What connection k has received so far.
Received(k) == SubSeq(Conn(k).text, 1, Conn(k).pos)

\* The lines handled for connection k are the complete 'data: ' lines of
\* what it has received, each once and in order.
HandledWhatWasSent(k) ==
  Conn(k).handled = SelectSeq(CompleteLines(Received(k)), IsEventLine)

\* C35: with a single stream, however the stream is cut into chunks, the
\* lines processSSEChunk has handled are exactly the complete 'data: ' lines
\* of the text received so far, each once and in order; the part after the
\* last newline waits in sseBuffer.
C35_ChunkingDoesNotMatter ==
  \A k \in DOMAIN net.conn :
    /\ HandledWhatWasSent(k)
    /\ Conn(k).phase = "read" => sseBuffer = Unfinished(Received(k))

\* A token event was handled and the chunk ended inside the done event that
\* follows: its first three characters wait in the buffer.
C35_Witness ==
  \E k \in DOMAIN net.conn :
    /\ Conn(k).text = Event(<<"T">>) \o Event(<<"U">>)
    /\ Conn(k).phase = "read"
    /\ Conn(k).handled = << DATA \o <<"T">> >>
    /\ sseBuffer = <<"d", "a", "t">>

\* ---------------------------------------------------------------- C36
\* C36: with two workflows launched, the lines handled for each job are the
\* complete 'data: ' lines its own stream has delivered, each once and in
\* order: what one stream delivers takes nothing from the other.
C36_StreamsDoNotDisturbEachOther ==
  Len(net.conn) >= 2 => \A k \in DOMAIN net.conn : HandledWhatWasSent(k)

\* ---------------------------------------------------------------- C37
\* The job object with this id.
JobOf(id) == JOBS[CHOOSE m \in 1..Len(JOBS) : JOBS[m].id = id]

\* A done event is among the lines handled for connection k.
HandledDone(k) ==
  \E h \in 1..Len(Conn(k).handled) :
    ParseEvent(Slice(Conn(k).handled[h], 6)).type = "done"

\* C37: a job of a live workflow is completed only when a done event was
\* handled for it, and then it has its server_job_id; the progress timer
\* completes no such job.
C37_LiveJobsCompleteByDoneOnly ==
  \A k \in DOMAIN net.conn :
    /\ JobOf(Conn(k).job).wf \in liveWorkflows
    /\ JobOf(Conn(k).job).status = "completed"
    => HandledDone(k) /\ JobOf(Conn(k).job).server_job_id # ""

\* ---------------------------------------------------------------- C38
\* No job that is completed or failed changes its status in this step.
C38_Step ==
  \A m \in 1..Len(JOBS) :
    JOBS[m].status \in { "completed", "failed" }
    => \E n \in 1..Len(JOBS') :
         JOBS'[n].id = JOBS[m].id /\ JOBS'[n].status = JOBS[m].status

\* C38: once a job is completed or failed, its status never changes again.
C38_FinalStatusStays == [][C38_Step]_vars

====
